---------------------------- MODULE Spec2Model ----------------------------
(***************************************************************************)
(* A model of basin: the intake handlers (main.rs), the per-kind           *)
(* controllers and their control loop (controller/*.rs), the event         *)
(* reflector (descriptor_event_watcher.rs), the two redis-backed stores    *)
(* and the remote backends the provisioners talk to.                       *)
(*                                                                         *)
(* Granularity.  An intake handler is split at the awaits that touch the   *)
(* two stores (store_descriptor, set_state(Pending), reconcile, final      *)
(* set_state); a loop tick is split into list_descriptors and one step per *)
(* reconciled descriptor; a reflector iteration into receive, one step per *)
(* message and the batch delete.  One reconcile is one step: the outcome   *)
(* of each remote call it makes is an input of the step.                   *)
(***************************************************************************)
EXTENDS Naturals, Sequences, FiniteSets, TLC

\* ------------------------------------------------------------------ bounds

\* Number of intake requests that can be in flight at the same time.
MaxHandlers == 1

\* ------------------------------------------------------------ option type

None == {}
Some(x) == {x}
IsSome(o) == o # {}
Unwrap(o) == CHOOSE x \in o : TRUE

\* ------------------------------------------------------------ descriptors

Kinds == {"database", "table", "flow"}

\* A name is a sequence of one-character strings, so that the character
\* classes of the validation regexes and the '_' -> '-' replacement of the
\* bucket name work on it as they do on the Rust String.
LowerAlnumUnderscore ==
    {"a", "b", "c", "d", "e", "f", "g", "h", "i", "j", "k", "l", "m", "n",
     "o", "p", "q", "r", "s", "t", "u", "v", "w", "x", "y", "z",
     "0", "1", "2", "3", "4", "5", "6", "7", "8", "9", "_"}

RECURSIVE Join(_)
Join(cs) == IF cs = <<>> THEN "" ELSE Head(cs) \o Join(Tail(cs))

DatabaseIds == {"d1"}
TableIds == {"t1", "t2"}
FlowIds == {"f1", "f2"}

IdsOf(kind) ==
    CASE kind = "database" -> DatabaseIds
      [] kind = "table" -> TableIds
      [] kind = "flow" -> FlowIds

AllIds == DatabaseIds \cup TableIds \cup FlowIds

\* fluid/descriptor/database.rs
DatabaseDescriptor(id, name, summary) ==
    [kind |-> "database", id |-> id, name |-> name, summary |-> summary]

SupportedColTypes ==
    {"Int", "Long", "Float", "Double", "Boolean", "String", "Date", "Timestamp"}

TableColumnType == SupportedColTypes \cup {"Complex"}

TableColumnAttribute(name, kind) ==
    [name |-> name, summary |-> "c", codec |-> [kind |-> kind], nullable |-> FALSE]

\* fluid/descriptor/table.rs
TableDescriptor(id, name, database, columns) ==
    [kind |-> "table", id |-> id, name |-> name, summary |-> "s",
     database |-> database, columns |-> columns]

FlowStep(name, parents) ==
    [name |-> name, summary |-> "s", parents |-> parents, timeout |-> "1h",
     transformation |-> [type |-> "sql",
                         sql |-> <<"S", "E", "L", "E", "C", "T", " ", "1">>]]

\* fluid/descriptor/flow.rs
FlowDescriptor(id, condition, steps) ==
    [kind |-> "flow", id |-> id, name |-> <<"d">>, summary |-> "s",
     condition |-> condition, steps |-> steps]

CronCondition == [type |-> "cron", schedule |-> "0 0 * * *"]
UpstreamCondition == [type |-> "upstream", upstream |-> "f0"]


\* ---------------------------------------------------------------- errors

\* The anyhow::Result<()> a reconcile returns.  class is "Ok", one of the
\* three ControllerReconciliationError variants, or "Other" for an error
\* that is no ControllerReconciliationError (what `?` lets through from the
\* redis client); arg is the payload of DependencyMissing; source is the
\* message of the wrapped #[source] error.
Ok == [class |-> "Ok", arg |-> "", source |-> ""]
ProvisionerError(source) == [class |-> "ProvisionerError", arg |-> "", source |-> source]
ControllerError(source) == [class |-> "ControllerError", arg |-> "", source |-> source]
DependencyMissing(ref) == [class |-> "DependencyMissing", arg |-> ref, source |-> ""]
OtherError(msg) == [class |-> "Other", arg |-> "", source |-> msg]

IsErr(r) == r.class # "Ok"

\* e.to_string(): the #[error(...)] strings of ControllerReconciliationError
\* (the source is not part of them); an error of another type displays its
\* own message.  The back-quotes around {0} are written as quotes.
ErrToString(e) ==
    CASE e.class = "ProvisionerError" -> "error from provisioner"
      [] e.class = "ControllerError" -> "error from controller"
      [] e.class = "DependencyMissing" -> "missing dependency '" \o e.arg \o "'"
      [] e.class = "Other" -> e.source

\* ------------------------------------------------------ deployment state

DeploymentState == {"Pending", "Deploying", "Succeeded", "Failed", "Unknown"}

DeploymentInfo(state, description) ==
    [state |-> state, description |-> description]

\* ------------------------------------------------------------ validation

\* VALIDATION_REGEX_NAME = ^[a-z0-9_]+$
MatchesNameRegex(name) ==
    /\ Len(name) > 0
    /\ \A i \in 1..Len(name) : name[i] \in LowerAlnumUnderscore

\* VALIDATION_REGEX_TABLE_NAME = VALIDATION_REGEX_COLUMN_NAME = ^[a-z0-9_]
\* (no quantifier, no end anchor: only the first character is constrained)
MatchesFirstCharRegex(name) ==
    /\ Len(name) > 0
    /\ name[1] \in LowerAlnumUnderscore

DatabaseValidate(d) == MatchesNameRegex(d.name)

\* A variant of the table validation that does not look at the column
\* types; the code does not do this.
TableValidateNamesOnly(d) ==
    /\ MatchesFirstCharRegex(d.name)
    /\ \A i \in 1..Len(d.columns) : MatchesFirstCharRegex(d.columns[i].name)

TableValidate(d) ==
    /\ MatchesFirstCharRegex(d.name)
    /\ \A i \in 1..Len(d.columns) :
          /\ MatchesFirstCharRegex(d.columns[i].name)
          /\ d.columns[i].codec.kind \in SupportedColTypes

\* ---------------------------------------------------------------- naming

ReplaceUnderscore(name) ==
    [i \in 1..Len(name) |-> IF name[i] = "_" THEN "-" ELSE name[i]]

\* DatabaseController::glue_name_for
glue_name_for(d) == "zone_" \o Join(d.name)

\* A variant of the table controller's catalog name that replaces the
\* underscores as the bucket name does; the code does not do this.
table_glue_name_hyphenated(d) == "zone_" \o Join(ReplaceUnderscore(d.name))

\* TableController::glue_name_for (table.rs:230-232)
table_glue_name_for(d) == "zone_" \o Join(d.name)

\* A variant of s3_name_for that keeps the underscores of the name; the code
\* does not do this.
s3_name_keeping_underscores(d) == "cz-vaporeon-db-" \o Join(d.name)

\* DatabaseController::s3_name_for
s3_name_for(d) == "cz-vaporeon-db-" \o Join(ReplaceUnderscore(d.name))

\* TableController::s3_name_for (table.rs:234-236)
table_s3_name_for(d) == "cz-vaporeon-db-" \o Join(ReplaceUnderscore(d.name))

\* ------------------------------------------------- flow: job compilation

PRIMORDIAL_TIME == "2000-01-01T00:00:00Z"
WaterwheelProject == "proj"

\* A variant of the compilation in which every task also depends on the
\* trigger; the code does not do this.
TaskDependsWithTrigger(step) ==
    <<"trigger/cron">> \o [i \in 1..Len(step.parents) |-> "task/" \o step.parents[i]]

\* flow.rs:123-136: the depends of the task of a step
TaskDepends(step) ==
    LET depends == [i \in 1..Len(step.parents) |-> "task/" \o step.parents[i]]
    IN  IF Len(step.parents) = 0 THEN <<"trigger/cron">> ELSE depends

\* The characters shell_escape::escape leaves alone: ASCII letters and
\* digits and - _ = / , . +
ShellSafeChars ==
    {"a", "b", "c", "d", "e", "f", "g", "h", "i", "j", "k", "l", "m", "n",
     "o", "p", "q", "r", "s", "t", "u", "v", "w", "x", "y", "z",
     "A", "B", "C", "D", "E", "F", "G", "H", "I", "J", "K", "L", "M", "N",
     "O", "P", "Q", "R", "S", "T", "U", "V", "W", "X", "Y", "Z",
     "0", "1", "2", "3", "4", "5", "6", "7", "8", "9",
     "-", "_", "=", "/", ",", ".", "+"}

\* flow.rs:115, shell_escape::escape on the sql text (a sequence of
\* characters): a non-empty text of safe characters is returned as it is;
\* any other text is put between single quotes, every ' and ! in it
\* replaced by '\'' and '\!'.  The value is the sequence of the pieces of
\* the escaped text.
shell_escape(sql) ==
    IF sql # <<>> /\ \A i \in 1..Len(sql) : sql[i] \in ShellSafeChars
    THEN sql
    ELSE <<"'">> \o [i \in 1..Len(sql) |->
                       IF sql[i] \in {"'", "!"}
                       THEN "'\\" \o sql[i] \o "'" ELSE sql[i]]
                \o <<"'">>

\* flow.rs:113-136: the task of a step; escaped_sql is bound to the value of
\* shell_escape as the let of flow.rs:115 binds it.
WaterwheelTask(step) ==
    [name |-> step.name,
     docker |-> [image |-> "bash",
                 args |-> <<"-c", CHOOSE arg \in
                                     {"echo \"" \o Join(escaped_sql) \o "\"" :
                                         escaped_sql \in
                                            {shell_escape(step.transformation.sql)}} :
                                     TRUE>>],
     depends |-> TaskDepends(step)]

\* FlowController::build_waterwheel_job_spec: Some(job), or None for bail!().
build_waterwheel_job_spec(d) ==
    IF d.condition.type = "cron"
    THEN Some([uuid |-> d.id,
               project |-> WaterwheelProject,
               name |-> Join(d.name),
               description |-> d.summary,
               paused |-> FALSE,
               triggers |-> <<[name |-> "cron", start |-> PRIMORDIAL_TIME,
                               cron |-> d.condition.schedule]>>,
               tasks |-> [i \in 1..Len(d.steps) |-> WaterwheelTask(d.steps[i])]])
    ELSE None

\* A variant of validate that leaves all checking to the workflow engine
\* and accepts every flow; the code does not do this.
FlowValidateAccepting(d) == TRUE

\* FlowController::validate (flow.rs:28-32)
FlowValidate(d) == IsSome(build_waterwheel_job_spec(d))

\* BaseController::validate, by kind
Validate(d) ==
    CASE d.kind = "database" -> DatabaseValidate(d)
      [] d.kind = "table" -> TableValidate(d)
      [] d.kind = "flow" -> FlowValidate(d)

\* ----------------------------------------------------- remote call runs
\*
\* The remote calls one future makes, in order, as a sequence of records
\*   [call, fails, post]
\* call: the operation, fails: the future returns Err at this call, post: the
\* backend's state once the call has been served.  Only the last call of a
\* run can have fails = TRUE.

Call(call, fails, post) == [call |-> call, fails |-> fails, post |-> post]

RunFails(run) == Len(run) > 0 /\ run[Len(run)].fails

\* The backend's state after the first n calls of a run.
PostOf(run, n, pre) == IF n = 0 THEN pre ELSE run[n].post

\* f with key k set to v (k may be new).
Put(f, k, v) == (k :> v) @@ f

\* ---------------------------------------------------- provisioner: s3

BucketTags ==
    {<<"provisioner", "basin">>, <<"subprovisioner", "s3">>,
     <<"basin_version", "0.0.1">>}

\* The outcomes of the S3 calls: head in {"actual", "err"} (head_bucket
\* answers by the bucket's presence, or fails with an error other than
\* NotFound), create in {"ok", "owned", "err"} (create_bucket succeeds, or
\* fails with BucketAlreadyOwnedByYou, or fails otherwise), tag in
\* {"ok", "err"} (put_bucket_tagging; it cannot succeed on a missing bucket).

\* S3Provisioner::create_bucket
create_bucket(name, o, buckets) ==
    LET created == Put(buckets, name, {})
        afterCreate == IF o.create = "err" THEN buckets ELSE created
        tagOk == o.tag = "ok" /\ name \in DOMAIN afterCreate
        tagged == IF tagOk THEN Put(afterCreate, name, BucketTags) ELSE afterCreate
    IN  IF o.create = "owned"
        THEN <<Call("create_bucket", TRUE, created)>>
        ELSE <<Call("create_bucket", FALSE, afterCreate),
               Call("put_bucket_tagging", ~tagOk, tagged)>>

\* S3Provisioner::update_bucket: no remote call
update_bucket(name, buckets) == <<Call("update_bucket", FALSE, buckets)>>

\* A variant of reconcile_s3 that creates the bucket whatever the lookup
\* says; the code does not do this.
reconcile_s3_always_creating(d, o, buckets) ==
    IF o.head = "err"
    THEN <<Call("head_bucket", TRUE, buckets)>>
    ELSE <<Call("head_bucket", FALSE, buckets)>> \o
         create_bucket(s3_name_for(d), o, buckets)

\* DatabaseController::reconcile_s3
reconcile_s3(d, o, buckets) ==
    LET s3_name == s3_name_for(d)
    IN  IF o.head = "err"
        THEN <<Call("head_bucket", TRUE, buckets)>>
        ELSE <<Call("head_bucket", FALSE, buckets)>> \o
             (IF s3_name \in DOMAIN buckets
              THEN update_bucket(s3_name, buckets)
              ELSE create_bucket(s3_name, o, buckets))

\* -------------------------------------------------- provisioner: glue

GlueDbTags ==
    {<<"provisioner", "basin">>, <<"subporovisioner", "glue">>,
     <<"basin_version", "0.0.1">>}

\* GlueProvisioner::build_db_input
build_db_input(name, description, location) ==
    [name |-> name, description |-> description, location_uri |-> location]

\* GlueProvisioner::create_database
create_database(name, description, location, o, dbs) ==
    LET created == Put(dbs, name, [input |-> build_db_input(name, description, location),
                                   tags |-> {}])
        tagged == Put(dbs, name, [created[name] EXCEPT !.tags = GlueDbTags])
    IN  IF o.createdb = "err"
        THEN <<Call("create_database", TRUE, dbs)>>
        ELSE <<Call("create_database", FALSE, created),
               Call("tag_resource", o.tagdb = "err",
                    IF o.tagdb = "err" THEN created ELSE tagged)>>

\* A variant of update_database that replaces the whole catalog entry, tags
\* included, by the new input; the code does not do this.
update_database_replacing_entry(name, description, location, o, dbs) ==
    IF o.updatedb = "err"
    THEN <<Call("update_database", TRUE, dbs)>>
    ELSE <<Call("update_database", FALSE,
                Put(dbs, name, [input |-> build_db_input(name, description, location),
                                tags |-> {}]))>>

\* GlueProvisioner::update_database
update_database(name, description, location, o, dbs) ==
    IF o.updatedb = "err"
    THEN <<Call("update_database", TRUE, dbs)>>
    ELSE <<Call("update_database", FALSE,
                Put(dbs, name, [dbs[name] EXCEPT
                                   !.input = build_db_input(name, description, location)]))>>

\* DatabaseController::reconcile_glue
reconcile_glue(d, o, dbs) ==
    LET glue_name == glue_name_for(d)
        location == "s3://" \o s3_name_for(d)
    IN  IF o.getdb = "err"
        THEN <<Call("get_database", TRUE, dbs)>>
        ELSE <<Call("get_database", FALSE, dbs)>> \o
             (IF glue_name \in DOMAIN dbs
              THEN update_database(glue_name, d.summary, location, o, dbs)
              ELSE create_database(glue_name, d.summary, location, o, dbs))

DatabaseAllOk ==
    [head |-> "actual", create |-> "ok", tag |-> "ok", getdb |-> "actual",
     createdb |-> "ok", tagdb |-> "ok", updatedb |-> "ok"]

\* The outcomes of the calls of one database reconcile: in each of the two
\* runs every call is served, or one call fails (a run ends at its first
\* failed call, except that create_bucket goes on to tag after a failure
\* other than BucketAlreadyOwnedByYou).
DatabaseOutcomes ==
    {[s3 EXCEPT !.getdb = glue.getdb, !.createdb = glue.createdb,
                !.tagdb = glue.tagdb, !.updatedb = glue.updatedb] :
        s3 \in {DatabaseAllOk,
                [DatabaseAllOk EXCEPT !.head = "err"],
                [DatabaseAllOk EXCEPT !.create = "owned"],
                [DatabaseAllOk EXCEPT !.create = "err"],
                [DatabaseAllOk EXCEPT !.tag = "err"]},
        glue \in {DatabaseAllOk,
                  [DatabaseAllOk EXCEPT !.getdb = "err"],
                  [DatabaseAllOk EXCEPT !.createdb = "err"],
                  [DatabaseAllOk EXCEPT !.tagdb = "err"],
                  [DatabaseAllOk EXCEPT !.updatedb = "err"]}}

\* try_join!(reconcile_s3, reconcile_glue, reconcile_iam): Ok when every
\* future is Ok.  When one fails the join returns at once and drops the
\* others where they are: the dropped future has been served any prefix of
\* its calls.  cut = <<ns, ng>> are the numbers of S3 and Glue calls served.
JoinCuts(s3run, gluerun) ==
    IF ~RunFails(s3run) /\ ~RunFails(gluerun)
    THEN {<<Len(s3run), Len(gluerun)>>}
    ELSE {c \in (0..Len(s3run)) \X (0..Len(gluerun)) :
            \/ RunFails(s3run) /\ c[1] = Len(s3run)
            \/ RunFails(gluerun) /\ c[2] = Len(gluerun)}

\* A variant in which a failed join is reported as a controller error; the
\* code does not do this.
DatabaseJoinAsControllerError == ControllerError("aws sdk error")

\* The error class a failed try_join! is mapped to (database.rs:54).
DatabaseJoinError == ProvisionerError("aws sdk error")

\* DatabaseController::reconcile: [result, buckets, dbs] for the outcomes o
\* and the cut.
DatabaseReconcile(d, o, cut, buckets, dbs) ==
    LET s3run == reconcile_s3(d, o, buckets)
        gluerun == reconcile_glue(d, o, dbs)
    IN  [result |-> IF RunFails(s3run) \/ RunFails(gluerun)
                    THEN DatabaseJoinError ELSE Ok,
         buckets |-> PostOf(s3run, cut[1], buckets),
         dbs |-> PostOf(gluerun, cut[2], dbs)]

\* ------------------------------------------------------ descriptor store

\* A variant of the serialization that leaves out the summary, as a
\* #[serde(skip_serializing)] on the field would; the code does not do this.
SerializeSkippingSummary(d) == [f \in (DOMAIN d) \ {"kind", "summary"} |-> d[f]]

\* serde_json::to_string(descriptor): the struct's fields.  kind() is a
\* method of IdentifiableDescriptor, not a field, and is not serialized.
Serialize(d) == [f \in (DOMAIN d) \ {"kind"} |-> d[f]]

FieldsOf(kind) ==
    CASE kind = "database" -> {"id", "name", "summary"}
      [] kind = "table" -> {"id", "name", "summary", "columns", "database"}
      [] kind = "flow" -> {"id", "name", "summary", "condition", "steps"}

\* serde_json::from_str::<T>(json): every field of T must be present,
\* unknown fields are ignored.  None stands for the serde error.
Deserialize(kind, json) ==
    IF FieldsOf(kind) \subseteq DOMAIN json
    THEN Some([f \in FieldsOf(kind) \cup {"kind"} |->
                  IF f = "kind" THEN kind ELSE json[f]])
    ELSE None

\* format!("descriptor/{}/{}", kind, id)
DescriptorKey(kind, id) == <<"descriptor", kind, id>>

DescriptorKeys == UNION {{DescriptorKey(k, i) : i \in IdsOf(k)} : k \in Kinds}

\* RedisDescriptorStore::get_descriptor on the key space redis, once the
\* connection and the GET have succeeded: [ok, value], value an Option;
\* ok = FALSE is the serde error of a stored document of another shape.
get_descriptor(redis, id, kind) ==
    LET descriptor_json == redis[DescriptorKey(kind, id)]
    IN  IF IsSome(descriptor_json)
        THEN [ok |-> IsSome(Deserialize(kind, Unwrap(descriptor_json))),
              value |-> Deserialize(kind, Unwrap(descriptor_json))]
        ELSE [ok |-> TRUE, value |-> None]

\* A variant of store_descriptor that keeps the document a key already
\* holds (SET ... NX); the code does not do this.
store_descriptor_keeping_first(redis, d) ==
    IF IsSome(redis[DescriptorKey(d.kind, d.id)]) THEN redis
    ELSE [redis EXCEPT ![DescriptorKey(d.kind, d.id)] = Some(Serialize(d))]

\* RedisDescriptorStore::store_descriptor
store_descriptor(redis, d) ==
    [redis EXCEPT ![DescriptorKey(d.kind, d.id)] = Some(Serialize(d))]

\* conn.keys("descriptor/<kind>/*")
KeysOfKind(redis, kind) ==
    {key \in DescriptorKeys : key[2] = kind /\ IsSome(redis[key])}

\* ----------------------------------------------------- controller: table

LowercaseType(kind) ==
    CASE kind = "Int" -> "int"
      [] kind = "Long" -> "long"
      [] kind = "Float" -> "float"
      [] kind = "Double" -> "double"
      [] kind = "Boolean" -> "boolean"
      [] kind = "String" -> "string"
      [] kind = "Date" -> "date"
      [] kind = "Timestamp" -> "timestamp"
      [] kind = "Complex" -> "complex"

\* TableController::build_table_input
build_table_input(t, db) ==
    [name |-> Join(t.name),
     description |-> t.summary,
     storage_descriptor |->
        [columns |-> [i \in 1..Len(t.columns) |->
                        [name |-> Join(t.columns[i].name),
                         type |-> LowercaseType(t.columns[i].codec.kind),
                         comment |-> t.columns[i].summary]],
         location |-> "s3://" \o table_s3_name_for(db) \o "/" \o Join(t.name)]]

\* The outcomes of the calls of one table reconcile: lookup (the redis GET
\* of the database descriptor), get_table, put (create_table or
\* update_table).
TableOutcomes ==
    [lookup : {"actual", "err"}, get_table : {"actual", "err"}, put : {"ok", "err"}]

TableAllOk == [lookup |-> "actual", get_table |-> "actual", put |-> "ok"]

\* TableController::reconcile_glue_table: the run of Glue calls
reconcile_glue_table(t, db, o, tables) ==
    LET key == <<table_glue_name_for(db), Join(t.name)>>
        put == IF key \in DOMAIN tables THEN "update_table" ELSE "create_table"
    IN  IF o.get_table = "err"
        THEN <<Call("get_table", TRUE, tables)>>
        ELSE <<Call("get_table", FALSE, tables),
               Call(put, o.put = "err",
                    IF o.put = "err" THEN tables
                    ELSE Put(tables, key, build_table_input(t, db)))>>

\* A variant in which an absent database is reported as a provisioner
\* failure; the code does not do this.
TableDependencyAsProvisionerError(t) == ProvisionerError("database not found")

\* What reconcile returns when the depended database is not in the store
\* (table.rs:92-98).
TableDependencyAbsent(t) == DependencyMissing(t.database)

\* TableController::reconcile: [result, tables]
TableReconcile(t, o, redis, tables) ==
    LET depended_db == get_descriptor(redis, t.database, "database")
    IN  IF o.lookup = "err" \/ ~depended_db.ok
        THEN [result |-> OtherError("redis error"), tables |-> tables]
        ELSE IF ~IsSome(depended_db.value)
        THEN [result |-> TableDependencyAbsent(t), tables |-> tables]
        ELSE LET run == reconcile_glue_table(t, Unwrap(depended_db.value), o, tables)
             IN  [result |-> IF RunFails(run)
                             THEN ProvisionerError("aws sdk error") ELSE Ok,
                  tables |-> PostOf(run, Len(run), tables)]

\* ------------------------------------------------------ controller: flow

\* The bodies of the workflow engine's non-2xx responses.
ResponseBodies == {"invalid cron expression", "project not found"}

\* The outcomes of the submission: the POST returns a 2xx response, a
\* non-2xx response with a body, or the request fails to be sent.
FlowOutcomes ==
    {[post |-> "2xx", body |-> ""], [post |-> "send_err", body |-> ""]}
    \cup {[post |-> "non2xx", body |-> b] : b \in ResponseBodies}

FlowAllOk == [post |-> "2xx", body |-> ""]

\* FlowController::reconcile: [result, jobs].  The body of a non-2xx
\* response (o.body) is read and logged (flow.rs:57-64); the error returned
\* is made of a fixed message (flow.rs:65-67).
FlowReconcile(d, o, jobs) ==
    LET job_spec == build_waterwheel_job_spec(d)
    IN  IF ~IsSome(job_spec)
        THEN [result |-> ControllerError("unsupported trigger condition"),
              jobs |-> jobs]
        ELSE IF o.post = "send_err"
        THEN [result |-> ProvisionerError("error sending request"), jobs |-> jobs]
        ELSE IF o.post = "non2xx"
        THEN [result |-> ProvisionerError("error when submitting job to waterwheel"),
              jobs |-> jobs]
        ELSE [result |-> Ok, jobs |-> Put(jobs, Unwrap(job_spec).uuid, Unwrap(job_spec))]

\* ------------------------------------------------------------------ inputs

Col(kind) == TableColumnAttribute(<<"q">>, kind)

Steps == <<FlowStep("a", <<>>), FlowStep("b", <<"a">>)>>

ValidDatabase == DatabaseDescriptor("d1", <<"s", "_", "a">>, "s")
InvalidDatabase == DatabaseDescriptor("d1", <<"S">>, "s")

TableName(id) == IF id = "t1" THEN <<"o">> ELSE <<"p">>

ValidTable(id) == TableDescriptor(id, TableName(id), "d1", <<Col("Int")>>)
InvalidTable == TableDescriptor("t1", TableName("t1"), "d1", <<Col("Complex")>>)

CronFlow(id) == FlowDescriptor(id, CronCondition, Steps)
UpstreamFlow(id) == FlowDescriptor(id, UpstreamCondition, Steps)

\* An event-queue message: body_ok is whether the body parses as an
\* EnvelopedEvent, kind is payload.kind, doc is what GET descriptorURI
\* returns (None: not a JSON document).
Message(id, body_ok, kind, doc) ==
    [id |-> id, body_ok |-> body_ok, kind |-> kind, doc |-> doc]

EventFor(d) == Message("m-" \o d.id, TRUE, d.kind, Some(Serialize(d)))
UnknownKindEvent == Message("m-x", TRUE, "topic", None)
BadBodyEvent == Message("m-y", FALSE, "", None)

\* A run's inputs: the tasks of the process that are scheduled in it, the
\* descriptors its intake requests carry, and the messages on the event
\* queue.
Scenario(t, p, m) == [tasks |-> t, payloads |-> p, messages |-> m]

Scenarios ==
    {\* intake of a database and the database loop
     Scenario({"http", "database"}, {ValidDatabase, InvalidDatabase}, {}),
     \* one id written by intake and by the reflector, and its loop
     Scenario({"http", "reflector", "database"}, {ValidDatabase},
              {EventFor(ValidDatabase)}),
     \* a table submitted before its database arrives as an event
     Scenario({"http", "reflector", "table"}, {ValidTable("t1"), InvalidTable},
              {EventFor(ValidDatabase)}),
     \* two tables in one tick, with and without their database
     Scenario({"reflector", "table"}, {},
              {EventFor(ValidTable("t1")), EventFor(ValidTable("t2")),
               EventFor(ValidDatabase)}),
     \* intake of flows and the flow loop
     Scenario({"http", "flow"}, {CronFlow("f1"), UpstreamFlow("f1")}, {}),
     \* two flows in one tick, one of them not compilable
     Scenario({"reflector", "flow"}, {},
              {EventFor(UpstreamFlow("f1")), EventFor(CronFlow("f2"))}),
     \* events that are skipped or cannot be parsed
     Scenario({"reflector", "database"}, {},
              {EventFor(ValidDatabase), UnknownKindEvent, BadBodyEvent}),
     \* one flow id written by intake and by the reflector with different
     \* content, and the flow loop
     Scenario({"http", "reflector", "flow"}, {CronFlow("f1")},
              {EventFor(UpstreamFlow("f1"))})}

\* Messages one receive_message call returns at most.
MaxBatch == 2

RECURSIVE Perms(_)
\* The sequences that list every element of the set S once.
Perms(S) ==
    IF S = {} THEN {<<>>}
    ELSE UNION {{<<x>> \o p : p \in Perms(S \ {x})} : x \in S}

Batches(q) ==
    UNION {Perms(b) : b \in {b \in SUBSET q : Cardinality(b) <= MaxBatch}}

\* ------------------------------------------------------------------- state

Tasks == {"http", "reflector"} \cup Kinds

VARIABLES
    tasks,              \* the tasks the process runs
    payloads,           \* the descriptors this run's intake requests carry
    descriptors,        \* redis keys descriptor/<kind>/<id>
    deployment_state,   \* redis keys deployment-state/<id>
    buckets,            \* S3: bucket name -> tag set
    glue_dbs,           \* Glue: database name -> [input, tags]
    glue_tables,        \* Glue: <<database name, table name>> -> table input
    jobs,               \* waterwheel: job uuid -> job
    queue,              \* the event queue's messages
    handlers,           \* the intake requests in flight
    loops,              \* BaseController::run of each kind
    reflector           \* DescriptorEventWatcher::ingest_loop

vars ==
    <<tasks, payloads, descriptors, deployment_state, buckets, glue_dbs, glue_tables, jobs,
      queue, handlers, loops, reflector>>

stores == <<descriptors, deployment_state>>
remote == <<buckets, glue_dbs, glue_tables, jobs>>

Empty == [x \in {} |-> {}]

IdleHandler == [pc |-> "idle", d |-> None, res |-> None, status |-> 0]
SleepingLoop == [pc |-> "sleep", todo |-> <<>>, listed |-> <<>>, calls |-> <<>>, ret |-> ""]
SleepingReflector == [pc |-> "sleep", msgs |-> <<>>, i |-> 0, deletions |-> <<>>]

InitState ==
    /\ descriptors = [key \in DescriptorKeys |-> None]
    /\ deployment_state = [id \in AllIds |-> None]
    /\ buckets = Empty
    /\ glue_dbs = Empty
    /\ glue_tables = Empty
    /\ jobs = Empty
    /\ handlers = [h \in 1..MaxHandlers |-> IdleHandler]
    /\ loops = [k \in Kinds |-> SleepingLoop]
    /\ reflector = SleepingReflector

\* The process with the tasks and the inputs of one of the scenarios.
\* The process starts one of the runs of S.
StartIn(S) ==
    /\ \E sc \in S :
          /\ tasks = sc.tasks
          /\ payloads = sc.payloads
          /\ queue = sc.messages
    /\ InitState

Init == StartIn(Scenarios)

\* ------------------------------------------------- deployment-state store

\* A variant of set_state that notes in the description that it has
\* replaced an earlier entry; the code does not do this.
set_state_noting_overwrite(store, id, info) ==
    [store EXCEPT ![id] = IF IsSome(store[id])
                          THEN Some(DeploymentInfo(info.state, Some("overwritten")))
                          ELSE Some(info)]

\* RedisDeploymentStateStore::set_state, the SET having succeeded
set_state(store, id, info) == [store EXCEPT ![id] = Some(info)]

\* RedisDeploymentStateStore::get_state
get_state(store, id) == store[id]

\* ------------------------------------------------------------- reconcile

OutcomesOf(kind) ==
    CASE kind = "database" -> DatabaseOutcomes
      [] kind = "table" -> TableOutcomes
      [] kind = "flow" -> FlowOutcomes

AllOk(kind) ==
    CASE kind = "database" -> DatabaseAllOk
      [] kind = "table" -> TableAllOk
      [] kind = "flow" -> FlowAllOk

CutsOf(d, o) ==
    IF d.kind = "database"
    THEN JoinCuts(reconcile_s3(d, o, buckets), reconcile_glue(d, o, glue_dbs))
    ELSE {<<0, 0>>}

\* BaseController::reconcile of the controller of d's kind, in the current
\* state: [result, buckets, glue_dbs, glue_tables, jobs].
Reconcile(d, o, cut) ==
    CASE d.kind = "database" ->
            LET out == DatabaseReconcile(d, o, cut, buckets, glue_dbs)
            IN  [result |-> out.result, buckets |-> out.buckets, glue_dbs |-> out.dbs,
                 glue_tables |-> glue_tables, jobs |-> jobs]
      [] d.kind = "table" ->
            LET out == TableReconcile(d, o, descriptors, glue_tables)
            IN  [result |-> out.result, buckets |-> buckets, glue_dbs |-> glue_dbs,
                 glue_tables |-> out.tables, jobs |-> jobs]
      [] d.kind = "flow" ->
            LET out == FlowReconcile(d, o, jobs)
            IN  [result |-> out.result, buckets |-> buckets, glue_dbs |-> glue_dbs,
                 glue_tables |-> glue_tables, jobs |-> out.jobs]

SetRemote(out) ==
    /\ buckets' = out.buckets
    /\ glue_dbs' = out.glue_dbs
    /\ glue_tables' = out.glue_tables
    /\ jobs' = out.jobs

\* ---------------------------------------------------------------- intake
\*
\* handle_db_reconcile, handle_table_reconcile and handle_flow_reconcile are
\* the same code over the three controllers.  pc: "idle" (no request),
\* "stored" (after store_descriptor), "pending" (after set_state(Pending)),
\* "reconciled" (after ctl.reconcile), "done" (the response is returned).

BAD_REQUEST == 400
INTERNAL_SERVER_ERROR == 500
ACCEPTED == 202

\* main.rs:93-99: validate, then store_descriptor, whose Result is dropped.
HandleValidateAndStore(h, d) ==
    /\ "http" \in tasks
    /\ handlers[h].pc = "idle"
    /\ IF ~Validate(d)
       THEN /\ handlers' = [handlers EXCEPT ![h] =
                   [pc |-> "done", d |-> Some(d), res |-> None, status |-> BAD_REQUEST]]
            /\ UNCHANGED descriptors
       ELSE /\ handlers' = [handlers EXCEPT ![h] =
                   [pc |-> "stored", d |-> Some(d), res |-> None, status |-> 0]]
            /\ \E ok \in BOOLEAN :
                  descriptors' = IF ok THEN store_descriptor(descriptors, d)
                                 ELSE descriptors
    /\ UNCHANGED <<tasks, payloads, deployment_state, remote, queue, loops, reflector>>

\* A variant in which the handler marks the descriptor Deploying before it
\* reconciles; the code does not do this.
HandlerInitialDeploying == DeploymentInfo("Deploying", None)

\* What the handler stores before it reconciles (main.rs:100-108).
HandlerInitialInfo == DeploymentInfo("Pending", None)

\* main.rs:100-108: set_state(Pending), whose Result is dropped.
HandleSetPending(h) ==
    /\ "http" \in tasks
    /\ handlers[h].pc = "stored"
    /\ handlers' = [handlers EXCEPT ![h].pc = "pending"]
    /\ \E ok \in BOOLEAN :
          deployment_state' =
             IF ok THEN set_state(deployment_state, Unwrap(handlers[h].d).id,
                                  HandlerInitialInfo)
             ELSE deployment_state
    /\ UNCHANGED <<tasks, payloads, descriptors, remote, queue, loops, reflector>>

\* main.rs:110: ctl.reconcile(&payload)
HandleReconcile(h) ==
    /\ "http" \in tasks
    /\ handlers[h].pc = "pending"
    /\ \E o \in OutcomesOf(Unwrap(handlers[h].d).kind) :
       \E cut \in CutsOf(Unwrap(handlers[h].d), o) :
          LET out == Reconcile(Unwrap(handlers[h].d), o, cut)
          IN  /\ SetRemote(out)
              /\ handlers' = [handlers EXCEPT ![h].pc = "reconciled",
                                              ![h].res = Some(out.result)]
    /\ UNCHANGED <<tasks, payloads, stores, queue, loops, reflector>>

\* A variant of the handler that stores the state without a description
\* when the reconcile has failed; the code does not do this.
HandlerFinalInfoWithoutDescription(result) ==
    DeploymentInfo(IF IsErr(result) THEN "Failed" ELSE "Succeeded", None)

\* The info the handler stores for the result of its reconcile
\* (main.rs:110-131).
HandlerFinalInfo(result) ==
    IF IsErr(result)
    THEN DeploymentInfo("Failed", Some(ErrToString(result)))
    ELSE DeploymentInfo("Succeeded", None)

\* main.rs:110-133: the final set_state, whose Result is dropped, and the
\* response.
HandleRespond(h) ==
    /\ "http" \in tasks
    /\ handlers[h].pc = "reconciled"
    /\ handlers' = [handlers EXCEPT
          ![h].pc = "done",
          ![h].status = IF IsErr(Unwrap(handlers[h].res))
                        THEN INTERNAL_SERVER_ERROR ELSE ACCEPTED]
    /\ \E ok \in BOOLEAN :
          deployment_state' =
             IF ok THEN set_state(deployment_state, Unwrap(handlers[h].d).id,
                                  HandlerFinalInfo(Unwrap(handlers[h].res)))
             ELSE deployment_state
    /\ UNCHANGED <<tasks, payloads, descriptors, remote, queue, loops, reflector>>

\* The request is over; the handler's future is dropped.
HandleDone(h) ==
    /\ handlers[h].pc = "done"
    /\ handlers' = [handlers EXCEPT ![h] = IdleHandler]
    /\ UNCHANGED <<tasks, payloads, stores, remote, queue, loops, reflector>>

Intake ==
    \E h \in 1..MaxHandlers :
       \/ \E d \in payloads : HandleValidateAndStore(h, d)
       \/ HandleSetPending(h)
       \/ HandleReconcile(h)
       \/ HandleRespond(h)
       \/ HandleDone(h)

\* ---------------------------------------------------- control-loop runner
\*
\* BaseController::run.  pc: "sleep" (at ticker.tick().await), "reconciling"
\* (in the for loop of reconcile_all), "returned" (reconcile_all has
\* returned ret to run).  listed is what list_descriptors returned in this
\* tick; calls logs the reconciles of this tick, [id, result].

ListOf(kind) ==
    {[i \in 1..Len(keys) |-> Unwrap(Deserialize(kind, Unwrap(descriptors[keys[i]])))] :
        keys \in Perms(KeysOfKind(descriptors, kind))}

\* base.rs:25-36: the tick fires and reconcile_all lists the descriptors;
\* ok is whether list_descriptors succeeds.
TickWith(k, ok) ==
    /\ k \in tasks
    /\ loops[k].pc = "sleep"
    /\ ok \in BOOLEAN
    /\    IF ok
          THEN \E ds \in ListOf(k) :
                  loops' = [loops EXCEPT ![k] =
                     [pc |-> IF ds = <<>> THEN "returned" ELSE "reconciling",
                      todo |-> ds, listed |-> ds, calls |-> <<>>,
                      ret |-> IF ds = <<>> THEN "ok" ELSE ""]]
          ELSE loops' = [loops EXCEPT ![k] =
                     [pc |-> "returned", todo |-> <<>>, listed |-> <<>>,
                      calls |-> <<>>, ret |-> "err"]]
    /\ UNCHANGED <<tasks, payloads, stores, remote, queue, handlers, reflector>>

Tick(k) == \E ok \in BOOLEAN : TickWith(k, ok)

\* A variant of reconcile_all that returns the first error, as a ? on the
\* reconcile call would; the code does not do this.
ReturnOnReconcileError(result) == IF IsErr(result) THEN "return" ELSE "continue"

\* What reconcile_all does with the result of one reconcile (base.rs:41-53):
\* "continue" with the next descriptor, or "return" the error.
OnReconcileResult(result) == "continue"

\* A variant of the loop that records the outcome of each reconcile, as the
\* intake handlers do; the code does not do this.
LoopRecordsOutcome(store, d, result) ==
    set_state(store, d.id,
              IF IsErr(result)
              THEN DeploymentInfo("Failed", Some(ErrToString(result)))
              ELSE DeploymentInfo("Succeeded", None))

\* What the loop writes to the Deployment-State Store after a reconcile
\* (base.rs:39 "TODO: update state"): nothing.
LoopStateUpdate(store, d, result) == store

\* base.rs:38-54: one iteration of the for loop with the outcomes o.
LoopReconcileWith(k, o) ==
    /\ k \in tasks
    /\ loops[k].pc = "reconciling"
    /\ o \in OutcomesOf(k)
    /\ LET d == Head(loops[k].todo)
       IN  \E cut \in CutsOf(d, o) :
           LET out == Reconcile(d, o, cut)
               calls == Append(loops[k].calls, [id |-> d.id, result |-> out.result])
               stop == OnReconcileResult(out.result) = "return"
               rest == IF stop THEN <<>> ELSE Tail(loops[k].todo)
           IN  /\ SetRemote(out)
               /\ deployment_state' = LoopStateUpdate(deployment_state, d, out.result)
               /\ loops' = [loops EXCEPT ![k] =
                     [pc |-> IF rest = <<>> THEN "returned" ELSE "reconciling",
                      todo |-> rest, listed |-> loops[k].listed, calls |-> calls,
                      ret |-> IF stop THEN "err" ELSE IF rest = <<>> THEN "ok" ELSE ""]]
    /\ UNCHANGED <<tasks, payloads, descriptors, queue, handlers, reflector>>

LoopReconcile(k) == \E o \in OutcomesOf(k) : LoopReconcileWith(k, o)

\* A variant of run that leaves the loop when reconcile_all returns an error;
\* the code does not do this.
StopOnTickError(ret) == IF ret = "err" THEN "stopped" ELSE "sleep"

\* Where run goes once reconcile_all has returned ret (base.rs:28-32): both
\* arms of the match log and the loop goes around.
AfterReconcileAll(ret) == "sleep"

\* base.rs:28-32
LoopBack(k) ==
    /\ k \in tasks
    /\ loops[k].pc = "returned"
    /\ loops' = [loops EXCEPT ![k] =
          [SleepingLoop EXCEPT !.pc = AfterReconcileAll(loops[k].ret)]]
    /\ UNCHANGED <<tasks, payloads, stores, remote, queue, handlers, reflector>>

Loop ==
    \E k \in Kinds :
       \/ Tick(k)
       \/ LoopReconcile(k)
       \/ LoopBack(k)

\* --------------------------------------------------------- event reflector
\*
\* DescriptorEventWatcher::ingest_loop.  pc: "sleep" (at ticker.tick()),
\* "processing" (in the for loop of ingest_set, at message i), "deleting"
\* (before the batch delete).  An Err of ingest_set is logged by ingest_loop,
\* which goes back to sleep.

ReflectedKinds == {"database", "flow", "table"}

\* descriptor_event_watcher.rs:65-88: the tick fires, receive_message
IngestReceive ==
    /\ "reflector" \in tasks
    /\ reflector.pc = "sleep"
    /\ \E ok \in BOOLEAN :
          IF ok
          THEN \E msgs \in Batches(queue) :
                  reflector' = [pc |-> IF msgs = <<>> THEN "deleting" ELSE "processing",
                                msgs |-> msgs, i |-> 1, deletions |-> <<>>]
          ELSE reflector' = SleepingReflector
    /\ UNCHANGED <<tasks, payloads, stores, remote, queue, handlers, loops>>

\* What load_upstream_descriptor stores for a descriptor it has stored.
ReflectorInfo == DeploymentInfo("Pending", None)

\* descriptor_event_watcher.rs:157-199, load_upstream_descriptor, with the
\* outcomes o = [fetch, store, state]: [ok, descriptors, deployment_state]
load_upstream_descriptor(kind, doc, o) ==
    LET descriptor == IF IsSome(doc) THEN Deserialize(kind, Unwrap(doc)) ELSE None
        stored == store_descriptor(descriptors, Unwrap(descriptor))
    IN  IF o.fetch = "err" \/ ~IsSome(descriptor)
        THEN [ok |-> FALSE, descriptors |-> descriptors,
              deployment_state |-> deployment_state]
        ELSE IF o.store = "err"
        THEN [ok |-> FALSE, descriptors |-> descriptors,
              deployment_state |-> deployment_state]
        ELSE IF o.state = "err"
        THEN [ok |-> FALSE, descriptors |-> stored,
              deployment_state |-> deployment_state]
        ELSE [ok |-> TRUE, descriptors |-> stored,
              deployment_state |->
                 set_state(deployment_state, Unwrap(descriptor).id, ReflectorInfo)]

LoadOutcomes == [fetch : {"ok", "err"}, store : {"ok", "err"}, state : {"ok", "err"}]

\* A variant of ingest_set that logs a failed message and goes on to the
\* next one, keeping the failed message among the deletions; the code does
\* not do this.
ContinueOnMessageError(ok, next) == next

\* What ingest_set does after one message (descriptor_event_watcher.rs:103,
\* 111-131): on success or on an unknown kind it goes on with the message
\* kept among the deletions; on a failure the ? returns from ingest_set, the
\* deletions are dropped and ingest_loop logs the error and sleeps.
OnMessageResult(ok, next) == IF ok THEN next ELSE SleepingReflector

\* descriptor_event_watcher.rs:90-134: one iteration of the for loop
IngestMessage ==
    /\ "reflector" \in tasks
    /\ reflector.pc = "processing"
    /\ LET msg == reflector.msgs[reflector.i]
           deletions == Append(reflector.deletions, msg.id)
           next == [reflector EXCEPT
                       !.pc = IF reflector.i = Len(reflector.msgs)
                              THEN "deleting" ELSE "processing",
                       !.i = reflector.i + 1,
                       !.deletions = deletions]
       IN  IF ~msg.body_ok
           THEN /\ reflector' = OnMessageResult(FALSE, next)
                /\ UNCHANGED stores
           ELSE IF msg.kind \notin ReflectedKinds
           THEN /\ reflector' = OnMessageResult(TRUE, next)
                /\ UNCHANGED stores
           ELSE \E o \in LoadOutcomes :
                   LET out == load_upstream_descriptor(msg.kind, msg.doc, o)
                   IN  /\ descriptors' = out.descriptors
                       /\ deployment_state' = out.deployment_state
                       /\ reflector' = OnMessageResult(out.ok, next)
    /\ UNCHANGED <<tasks, payloads, remote, queue, handlers, loops>>

\* descriptor_event_watcher.rs:137-153: the batch delete
IngestDelete ==
    /\ "reflector" \in tasks
    /\ reflector.pc = "deleting"
    /\ reflector' = SleepingReflector
    /\ \E ok \in BOOLEAN :
          queue' = IF ok /\ reflector.deletions # <<>>
                   THEN queue \ {m \in queue :
                                   \E j \in 1..Len(reflector.deletions) :
                                      reflector.deletions[j] = m.id}
                   ELSE queue
    /\ UNCHANGED <<tasks, payloads, stores, remote, handlers, loops>>

Reflector ==
    \/ IngestReceive
    \/ IngestMessage
    \/ IngestDelete

\* -------------------------------------------------------------------- spec

Next ==
    \/ Intake
    \/ Loop
    \/ Reflector

Spec == Init /\ [][Next]_vars

\* Every await of a control loop returns: the ticker fires, each reconcile
\* returns (with any outcome), reconcile_all returns.
LoopsProgress ==
    \A k \in Kinds :
       /\ WF_vars(Tick(k))
       /\ WF_vars(LoopReconcile(k))
       /\ WF_vars(LoopBack(k))

LoopSpec == Spec /\ LoopsProgress

\* The table loop's reconcile of table id with every call succeeding.
TableReconcileSucceeding(id) ==
    /\ loops["table"].pc = "reconciling"
    /\ Head(loops["table"].todo).id = id
    /\ LoopReconcileWith("table", TableAllOk)

\* The states in which TableReconcileSucceeding(id) can be taken: the table
\* loop is at the reconcile of table id.
TableReconcileOffered(id) ==
    /\ "table" \in tasks
    /\ loops["table"].pc = "reconciling"
    /\ Head(loops["table"].todo).id = id

\* The backend calls of the table loop do not fail for ever: a listing that
\* is attempted again and again eventually succeeds, and so does the
\* reconcile of each table.  The second conjunct is strong fairness of
\* TableReconcileSucceeding(id), written with TableReconcileOffered(id) for
\* its enabling condition.
TableBackendSucceeds ==
    /\ SF_vars(TickWith("table", TRUE))
    /\ \A id \in TableIds :
          \/ <>[]~TableReconcileOffered(id)
          \/ []<><<TableReconcileSucceeding(id)>>_vars

\* The runs in which the table loop is scheduled.
TableScenarios == {sc \in Scenarios : "table" \in sc.tasks}

TableLoopSpec ==
    StartIn(TableScenarios) /\ [][Next]_vars /\ LoopsProgress /\ TableBackendSucceeds

\* ----------------------------------------------------------- process start
\*
\* main (main.rs:41-81) builds the AppContext and serves the axum router.
\* It spawns nothing else: no controller's run and no ingest_loop is called
\* anywhere in the program.

SpawnedByMain == {"http"}

\* main.rs:41-81
Main ==
    /\ tasks = {}
    /\ tasks' = SpawnedByMain
    /\ UNCHANGED <<payloads, stores, remote, queue, handlers, loops, reflector>>

\* Before main has run: no task, a client about to submit a database and a
\* table, and the matching events on the queue.
MainInit ==
    /\ tasks = {}
    /\ payloads = {ValidDatabase, InvalidDatabase, ValidTable("t1")}
    /\ queue = {EventFor(ValidDatabase), EventFor(ValidTable("t1"))}
    /\ InitState

\* The process from its start.  Loop and Reflector are guarded by their task
\* being in tasks, which it never is here, so Main and Intake are all the
\* steps there are.
MainNext ==
    \/ Main
    \/ Intake

MainSpec == MainInit /\ [][MainNext]_vars

\* ----------------------------------------------------- steps, as seen
\* from the state before and the state after

\* Handler h's reconcile has returned in this step.
HandlerReconciled(h) ==
    handlers[h].pc = "pending" /\ handlers'[h].pc = "reconciled"

\* Loop k has reconciled the head of its list in this step.
LoopReconciled(k) ==
    /\ loops[k].pc = "reconciling"
    /\ Len(loops'[k].calls) = Len(loops[k].calls) + 1

\* The last entry of loop k's log after the step.
LastCall(k) == loops'[k].calls[Len(loops'[k].calls)]

HasDatabase(id) == IsSome(descriptors[DescriptorKey("database", id)])

IdsIn(seq) == [i \in 1..Len(seq) |-> seq[i].id]

\* ------------------------------------------------------------------ claims

\* What C1 asks of a reconcile of table t that returned result while the
\* store was as in the state before the step.
DependencySemantics(t, result) ==
    /\ (result = DependencyMissing(t.database))
          <=> (~HasDatabase(t.database) /\ result.class # "Other")
    /\ result.class = "DependencyMissing" => result.arg = t.database
    /\ HasDatabase(t.database) => result.class # "DependencyMissing"

\* C1: a reconcile of table T, from intake or from the table loop, returns
\* DependencyMissing(T.database) exactly when the lookup of the database
\* descriptor returns nothing (the lookup was served and the key
\* descriptor/database/<T.database> holds no value); with a database
\* descriptor stored it never returns DependencyMissing.  A lookup that
\* fails is not empty: reconcile returns the redis error.
C1_DependencyMissingIffAbsent ==
    [][/\ \A h \in 1..MaxHandlers :
             (HandlerReconciled(h) /\ Unwrap(handlers[h].d).kind = "table")
                => DependencySemantics(Unwrap(handlers[h].d), Unwrap(handlers'[h].res))
       /\ LoopReconciled("table")
             => DependencySemantics(Head(loops["table"].todo), LastCall("table").result)
      ]_vars

\* C1 witness: an intake reconcile of a table has returned DependencyMissing
\* with no database stored at that time, and the table loop has since
\* reconciled a table with the database present.
C1_Witness ==
    /\ \E h \in 1..MaxHandlers :
          /\ handlers[h].pc = "reconciled"
          /\ handlers[h].res = Some(DependencyMissing("d1"))
    /\ HasDatabase("d1")
    /\ \E i \in 1..Len(loops["table"].calls) :
          loops["table"].calls[i].result = Ok

\* C2: in a tick whose list_descriptors succeeded, reconcile_all invokes
\* reconcile once for each listed descriptor, in order, whatever the earlier
\* reconciles returned, and returns Ok.
C2_EveryListedDescriptorReconciled ==
    \A k \in Kinds :
       /\ loops[k].pc = "reconciling"
             => /\ Len(loops[k].calls) + Len(loops[k].todo) = Len(loops[k].listed)
                /\ IdsIn(loops[k].calls) = IdsIn(SubSeq(loops[k].listed, 1, Len(loops[k].calls)))
       /\ (loops[k].pc = "returned" /\ loops[k].listed # <<>>)
             => /\ loops[k].ret = "ok"
                /\ IdsIn(loops[k].calls) = IdsIn(loops[k].listed)

\* C2 witness: a tick over two descriptors has returned, the first reconcile
\* having failed and the second having been made.
C2_Witness ==
    \E k \in Kinds :
       /\ loops[k].pc = "returned"
       /\ Len(loops[k].listed) = 2
       /\ Len(loops[k].calls) = 2
       /\ IsErr(loops[k].calls[1].result)

\* C9: a step of a control loop (the list, a reconcile, the return to the
\* ticker) changes neither the Descriptor Store nor the Deployment-State
\* Store.
C9_LoopLeavesStoresUnchanged ==
    [][loops' # loops => UNCHANGED <<descriptors, deployment_state>>]_vars

\* C9 witness: a loop has reconciled a descriptor with an error and the
\* descriptor's deployment state is still the Pending it had.
C9_Witness ==
    \E k \in Kinds :
       \E i \in 1..Len(loops[k].calls) :
          /\ IsErr(loops[k].calls[i].result)
          /\ deployment_state[loops[k].calls[i].id] = Some(DeploymentInfo("Pending", None))

\* C3: a control loop never stops.  Whatever a tick did (its listing failed,
\* some reconciles failed, all succeeded) the loop goes back to its ticker
\* and, every await returning, ticks again: each running loop is at its
\* ticker infinitely often and in a tick infinitely often, and is never
\* anywhere else.
C3_LoopNeverStops ==
    \A k \in Kinds :
       /\ [](loops[k].pc \in {"sleep", "reconciling", "returned"})
       /\ []<>(k \in tasks => loops[k].pc = "sleep")
       /\ []<>(k \in tasks => loops[k].pc # "sleep")

\* C3 witness: a tick has ended with the error of a failed listing.
C3_Witness ==
    \E k \in Kinds : loops[k].pc = "returned" /\ loops[k].ret = "err"

\* The Glue table and the location C5 names for the tables of the runs,
\* written out: the database is named s_a, table t1 is named o and table t2
\* is named p.
ExpectedGlueTable(id) == <<"zone_s_a", IF id = "t1" THEN "o" ELSE "p">>

ExpectedLocation(id) ==
    IF id = "t1" THEN "s3://cz-vaporeon-db-s-a/o" ELSE "s3://cz-vaporeon-db-s-a/p"

TableCreated(id) ==
    /\ ExpectedGlueTable(id) \in DOMAIN glue_tables
    /\ glue_tables[ExpectedGlueTable(id)].storage_descriptor.location = ExpectedLocation(id)

HasTable(id) == IsSome(descriptors[DescriptorKey("table", id)])

\* C5: a stored table whose database is missing is picked up again by the
\* table loop.  A table-loop reconcile of T made with database D stored and
\* with its calls succeeding leaves the Glue table T.name in database
\* zone_<D.name> with location s3://cz-vaporeon-db-<D.name, hyphens for
\* underscores>/<T.name>; and, the backend calls not failing for ever, once
\* T and D are both stored the table is eventually there.
C5_TableCreatedOnceDatabaseStored ==
    /\ [][\A id \in TableIds :
             (/\ LoopReconciled("table")
              /\ Head(loops["table"].todo).id = id
              /\ HasDatabase(Head(loops["table"].todo).database)
              /\ LastCall("table").result = Ok)
                 => TableCreated(id)']_vars
    /\ \A id \in TableIds :
          ("table" \in tasks /\ HasTable(id) /\ HasDatabase("d1")) ~> TableCreated(id)

\* C5 witness: with no intake running, the table loop has reconciled t1
\* successfully and its Glue table is at the expected location.
C5_Witness ==
    /\ "http" \notin tasks
    /\ TableCreated("t1")
    /\ \E i \in 1..Len(loops["table"].calls) :
          loops["table"].calls[i] = [id |-> "t1", result |-> Ok]

\* C4: once main has started the process, the HTTP server, the reflector's
\* ingest_loop and the run loop of each of the three kinds are all running.
\* (Only then would a stored descriptor be reconciled by a loop tick with no
\* further intake request.)
C4_AllTasksRunAfterStartup ==
    tasks # {} => tasks = Tasks

\* The stored deployment state of id in store: absent, or the state field.
StateIn(store, id) ==
    IF IsSome(store[id]) THEN Unwrap(store[id]).state ELSE "absent"

FailedWithDescriptionIn(store, id) ==
    /\ IsSome(store[id])
    /\ Unwrap(store[id]).state = "Failed"
    /\ IsSome(Unwrap(store[id]).description)
    /\ Unwrap(Unwrap(store[id]).description) # ""

\* Handler h has made its final set_state and responded in this step.
HandlerResponded(h) ==
    handlers[h].pc = "reconciled" /\ handlers'[h].pc = "done"

\* Handler h has made its set_state(Pending) in this step.
HandlerSetPending(h) ==
    handlers[h].pc = "stored" /\ handlers'[h].pc = "pending"

\* The reflector has processed the event of descriptor id in this step.
ReflectorIngested(id) ==
    /\ reflector.pc = "processing"
    /\ reflector' # reflector
    /\ reflector.msgs[reflector.i].id = "m-" \o id

ListedTransitions ==
    {<<"Pending", "Deploying">>, <<"Pending", "Succeeded">>, <<"Pending", "Failed">>,
     <<"Deploying", "Succeeded">>, <<"Deploying", "Failed">>}

\* C6, as stated: every change of a stored deployment state is one of
\* Pending -> Deploying, Pending -> Succeeded, Pending -> Failed,
\* Deploying -> Succeeded, Deploying -> Failed; in particular Succeeded and
\* Failed are never followed by Pending or by each other.  (The first write
\* for an id, from no state at all, is left free.)
C6_OnlyListedTransitions ==
    [][\A id \in AllIds :
          (/\ StateIn(deployment_state, id) # "absent"
           /\ StateIn(deployment_state', id) # StateIn(deployment_state, id))
             => <<StateIn(deployment_state, id), StateIn(deployment_state', id)>>
                   \in ListedTransitions]_vars

\* C6, as the code has it: every change of the stored deployment info of an
\* id is either a write of Pending with no description, made by an intake
\* handler before its reconcile or by the reflector on ingesting the
\* descriptor, whatever was stored before (nothing, Pending, Succeeded or
\* Failed); or the write, by the intake handler whose reconcile of that id
\* has returned, of Succeeded or of Failed with the error's text.  Deploying
\* and Unknown are never stored and a control loop never writes.
C6_StateWrites ==
    [][\A id \in AllIds :
          deployment_state'[id] # deployment_state[id]
             => \/ /\ deployment_state'[id] = Some(DeploymentInfo("Pending", None))
                   /\ \/ \E h \in 1..MaxHandlers :
                            HandlerSetPending(h) /\ Unwrap(handlers[h].d).id = id
                      \/ ReflectorIngested(id)
                \/ \E h \in 1..MaxHandlers :
                      /\ HandlerResponded(h)
                      /\ Unwrap(handlers[h].d).id = id
                      /\ LET result == Unwrap(handlers[h].res)
                         IN  deployment_state'[id] =
                                Some(IF IsErr(result)
                                     THEN DeploymentInfo("Failed", Some(ErrToString(result)))
                                     ELSE DeploymentInfo("Succeeded", None))]_vars

\* C6 witness: Succeeded is stored for the database and a new request for it
\* has stored its descriptor and is about to write Pending.
C6_Witness ==
    /\ StateIn(deployment_state, "d1") = "Succeeded"
    /\ \E h \in 1..MaxHandlers :
          handlers[h].pc = "stored" /\ Unwrap(handlers[h].d).id = "d1"

\* C7: whenever a reconcile returns an error, to an intake handler or to a
\* control loop, the Deployment-State Store afterwards holds Failed with a
\* non-empty description for that descriptor.
C7_ErrorLeavesFailed ==
    [][/\ \A h \in 1..MaxHandlers :
             (HandlerResponded(h) /\ IsErr(Unwrap(handlers[h].res)))
                => FailedWithDescriptionIn(deployment_state', Unwrap(handlers[h].d).id)
       /\ \A k \in Kinds :
             (LoopReconciled(k) /\ IsErr(LastCall(k).result))
                => FailedWithDescriptionIn(deployment_state', LastCall(k).id)]_vars

\* Loop k's log of the current tick holds a reconcile of id that returned
\* an error, or one that returned Ok.
LoopSawError(k, id) ==
    \E i \in 1..Len(loops[k].calls) :
       loops[k].calls[i].id = id /\ IsErr(loops[k].calls[i].result)

LoopSawOk(k, id) ==
    \E i \in 1..Len(loops[k].calls) :
       loops[k].calls[i].id = id /\ loops[k].calls[i].result = Ok

\* C8: the loop records the terminal outcome.  A descriptor left Pending
\* (as the reflector stores it) whose loop reconcile succeeds eventually has
\* Succeeded stored, and one whose loop reconcile fails eventually has
\* Failed stored with a description.
C8_LoopRecordsTerminalOutcome ==
    \A k \in Kinds : \A id \in AllIds :
       /\ (LoopSawOk(k, id) /\ StateIn(deployment_state, id) = "Pending")
             ~> (StateIn(deployment_state, id) = "Succeeded")
       /\ (LoopSawError(k, id) /\ StateIn(deployment_state, id) = "Pending")
             ~> FailedWithDescriptionIn(deployment_state, id)

\* C10: a table submitted to intake while its database is absent gets
\* DependencyMissing from reconcile and its stored state remains Pending: it
\* is not set to Failed.
C10_DependencyMissingStaysPending ==
    [][\A h \in 1..MaxHandlers :
          (/\ HandlerResponded(h)
           /\ Unwrap(handlers[h].d).kind = "table"
           /\ Unwrap(handlers[h].res) = DependencyMissing(Unwrap(handlers[h].d).database)
           /\ StateIn(deployment_state, Unwrap(handlers[h].d).id) = "Pending")
             => StateIn(deployment_state', Unwrap(handlers[h].d).id) = "Pending"]_vars

\* The payloads of the runs that their controller's validate rejects: a
\* database named S, a table with a Complex column, a flow with an upstream
\* condition.
RejectedPayloads == {InvalidDatabase, InvalidTable, UpstreamFlow("f1")}

\* The descriptor of the request handler h works on in this step.
RequestOf(h) ==
    IF IsSome(handlers'[h].d) THEN Unwrap(handlers'[h].d) ELSE Unwrap(handlers[h].d)

\* C11: an intake request whose descriptor fails validate is answered with
\* 400 and has no effect: every step of its handler (taking the request,
\* returning the response) leaves the Descriptor Store, the Deployment-State
\* Store and the backends as they were, and the handler goes straight to its
\* response with status 400.
C11_InvalidRequestHasNoEffect ==
    [][\A h \in 1..MaxHandlers :
          (handlers'[h] # handlers[h] /\ RequestOf(h) \in RejectedPayloads)
             => /\ UNCHANGED <<descriptors, deployment_state, remote>>
                /\ handlers[h].pc = "idle"
                      => (handlers'[h].pc = "done" /\ handlers'[h].status = BAD_REQUEST)
                /\ handlers[h].pc # "idle"
                      => (handlers[h].pc = "done" /\ handlers'[h].pc = "idle")]_vars

\* C11 witness: the table with the Complex column has been answered 400 and
\* nothing is stored and nothing was provisioned.
C11_Witness ==
    /\ \E h \in 1..MaxHandlers :
          /\ handlers[h].pc = "done"
          /\ handlers[h].d = Some(InvalidTable)
          /\ handlers[h].status = BAD_REQUEST
    /\ \A key \in DescriptorKeys : descriptors[key] = None
    /\ \A id \in AllIds : deployment_state[id] = None
    /\ glue_tables = Empty

\* Descriptor d is in the Descriptor Store under descriptor/<d.kind>/<d.id>.
Persisted(d) == descriptors[DescriptorKey(d.kind, d.id)] = Some(Serialize(d))

\* C12: a failed Descriptor Store or Deployment-State Store write makes the
\* request fail with 500, so a handler that answers 202 Accepted for D has
\* persisted D under (D.kind, D.id) and has recorded a state for D.id.
C12_AcceptedImpliesPersisted ==
    [][\A h \in 1..MaxHandlers :
          (HandlerResponded(h) /\ handlers'[h].status = ACCEPTED)
             => /\ Persisted(Unwrap(handlers[h].d))
                /\ IsSome(deployment_state'[Unwrap(handlers[h].d).id])]_vars

CreateCalls == {"create_bucket", "create_database", "create_table"}

NoCreateIn(run) == \A i \in 1..Len(run) : run[i].call \notin CreateCalls

\* A reconcile of d whose calls all succeed, made with the backends bk (S3),
\* dbs and tbls (Glue), jb (Waterwheel) and the Descriptor Store redis,
\* succeeds, issues no create call and leaves the backends as they are.
ReconcileIsNoOp(d, bk, dbs, tbls, jb, redis) ==
    CASE d.kind = "database" ->
            LET s3run == reconcile_s3(d, DatabaseAllOk, bk)
                gluerun == reconcile_glue(d, DatabaseAllOk, dbs)
                out == DatabaseReconcile(d, DatabaseAllOk,
                                         <<Len(s3run), Len(gluerun)>>, bk, dbs)
            IN  /\ out.result = Ok
                /\ out.buckets = bk /\ out.dbs = dbs
                /\ NoCreateIn(s3run) /\ NoCreateIn(gluerun)
      [] d.kind = "table" ->
            LET db == get_descriptor(redis, d.database, "database")
                out == TableReconcile(d, TableAllOk, redis, tbls)
            IN  /\ out.result = Ok
                /\ out.tables = tbls
                /\ NoCreateIn(reconcile_glue_table(d, Unwrap(db.value), TableAllOk, tbls))
      [] d.kind = "flow" ->
            LET out == FlowReconcile(d, FlowAllOk, jb)
            IN  out.result = Ok /\ out.jobs = jb

\* C13: reconcile is idempotent after its first success.  Whenever a
\* reconcile of D, by an intake handler or by a loop, has returned Ok, a
\* further reconcile of D against the backends as that reconcile left them
\* (its calls being served, the stored database of a table being the same)
\* returns Ok, issues no create call and leaves every remote resource and
\* attribute unchanged; so does every reconcile after it.
C13_ReconcileIdempotentAfterSuccess ==
    [][/\ \A h \in 1..MaxHandlers :
             (HandlerReconciled(h) /\ handlers'[h].res = Some(Ok))
                => ReconcileIsNoOp(Unwrap(handlers[h].d), buckets', glue_dbs',
                                   glue_tables', jobs', descriptors')
       /\ \A k \in Kinds :
             (LoopReconciled(k) /\ LastCall(k).result = Ok)
                => ReconcileIsNoOp(Head(loops[k].todo), buckets', glue_dbs',
                                   glue_tables', jobs', descriptors')]_vars

\* C13 witness: a tick of the database loop has reconciled d1 with Ok, and
\* its bucket and catalog database are there with their tags.
C13_Witness ==
    /\ \E i \in 1..Len(loops["database"].calls) :
          loops["database"].calls[i] = [id |-> "d1", result |-> Ok]
    /\ "cz-vaporeon-db-s-a" \in DOMAIN buckets
    /\ "zone_s_a" \in DOMAIN glue_dbs
    /\ glue_dbs["zone_s_a"].tags # {}

\* The databases about to be reconciled: by a handler that has set Pending,
\* or by the database loop at the head of its list.
DatabasesAtReconcile ==
    {Unwrap(handlers[h].d) : h \in {i \in 1..MaxHandlers :
                                      /\ handlers[i].pc = "pending"
                                      /\ Unwrap(handlers[i].d).kind = "database"}}
    \cup (IF loops["database"].pc = "reconciling"
          THEN {Head(loops["database"].todo)} ELSE {})

\* reconcile_iam (database.rs:150-152) makes no call and returns Ok.
IamSucceeds == TRUE

\* C14: for every outcome of the calls of a database reconcile about to be
\* made, and wherever the join drops the other futures, the reconcile
\* returns Ok exactly when the bucket, the catalog database and the IAM
\* sub-reconciliation all return Ok, and otherwise returns an error of class
\* ProvisionerError.
C14_DatabaseReconcileIsConjunction ==
    \A d \in DatabasesAtReconcile : \A o \in DatabaseOutcomes :
       LET s3run == reconcile_s3(d, o, buckets)
           gluerun == reconcile_glue(d, o, glue_dbs)
           allSucceed == ~RunFails(s3run) /\ ~RunFails(gluerun) /\ IamSucceeds
       IN  \A cut \in JoinCuts(s3run, gluerun) :
              LET result == DatabaseReconcile(d, o, cut, buckets, glue_dbs).result
              IN  /\ (result = Ok) <=> allSucceed
                  /\ ~allSucceed => result.class = "ProvisionerError"

\* C14 witness: a database reconcile by a handler has returned a provisioner
\* error with the bucket sub-reconciliation completed (bucket created and
\* tagged) and the catalog one failed (no catalog database).
C14_Witness ==
    /\ \E h \in 1..MaxHandlers :
          /\ handlers[h].pc = "reconciled"
          /\ Unwrap(handlers[h].res).class = "ProvisionerError"
          /\ Unwrap(handlers[h].d).kind = "database"
    /\ "cz-vaporeon-db-s-a" \in DOMAIN buckets
    /\ buckets["cz-vaporeon-db-s-a"] # {}
    /\ glue_dbs = Empty

\* How many of the first n calls of run are the operation op.
Issued(run, n, op) == Cardinality({i \in 1..n : run[i].call = op})

\* The lookup that opens run is among its first n calls and was answered.
LookupAnswered(run, n) == n >= 1 /\ ~run[1].fails

\* What C15 asks of one resource: run is its sub-reconciliation, n the
\* number of its calls made, present whether the resource exists, create
\* and update its two operations.
CreateIffMissing(run, n, present, create, update) ==
    /\ Issued(run, n, create) = 1 <=> (LookupAnswered(run, n) /\ ~present)
    /\ Issued(run, n, update) = 1 <=> (LookupAnswered(run, n) /\ present)
    /\ Issued(run, n, create) <= 1 /\ Issued(run, n, update) <= 1

CreateIffMissingUnlessDropped(run, n, present, create, update, peerFails) ==
    /\ Issued(run, n, create) = 1 => (LookupAnswered(run, n) /\ ~present)
    /\ Issued(run, n, update) = 1 => (LookupAnswered(run, n) /\ present)
    /\ Issued(run, n, create) <= 1 /\ Issued(run, n, update) <= 1
    /\ ~peerFails => /\ n = Len(run)
                     /\ CreateIffMissing(run, n, present, create, update)

ProcessedInto(m, descs, states) ==
    /\ m.body_ok
    /\ m.kind \in {"database", "flow", "table"}
    /\ IsSome(m.doc)
    /\ LET d == Deserialize(m.kind, Unwrap(m.doc))
       IN  /\ IsSome(d)
           /\ descs[<<"descriptor", m.kind, Unwrap(d).id>>] = Some(Serialize(Unwrap(d)))
           /\ states[Unwrap(d).id] = Some(DeploymentInfo("Pending", None))

\* Message m was parsed and is of a kind the reflector skips.
SkippedMessage(m) == m.body_ok /\ m.kind \notin {"database", "flow", "table"}

\* The ids of the messages of the batch that ingest_set has gone through.
HandledIds == {reflector.msgs[j].id : j \in 1..(reflector.i - 1)}

\* The ids ingest_set has collected for the batch delete.
DeletionIds == {reflector.deletions[j] : j \in 1..Len(reflector.deletions)}

\* The reflector goes through the message at hand in this step.
IngestStep == reflector.pc = "processing" /\ reflector' # reflector

IngestFails == reflector.pc = "processing" /\ reflector'.pc = "sleep"

\* C17: at the end of every reflector iteration the messages of the batch
\* that were processed successfully or skipped are batch-deleted in that
\* iteration, also when another message of the batch fails: when the
\* iteration ends by the failure of a message, none of the messages gone
\* through before it is left on the queue.
C17_ProcessedDeletedDespiteFailure ==
    [][IngestFails => \A m \in queue' : m.id \notin DeletionIds]_vars

\* Message m is of a kind the reflector loads and its descriptorURI returns
\* a document that parses as a descriptor of that kind.
ValidEvent(m) ==
    /\ m.body_ok
    /\ m.kind \in {"database", "flow", "table"}
    /\ IsSome(m.doc)
    /\ IsSome(Deserialize(m.kind, Unwrap(m.doc)))

\* The iteration of the reflector ends in this step.
IterationEnds == reflector.pc \in {"processing", "deleting"} /\ reflector'.pc = "sleep"

\* C18: after an iteration has received a message of kind database, flow or
\* table whose fetch returns a valid descriptor D, D is stored under its
\* key, the state of D.id is Pending with no description, and the message
\* is part of the iteration's batch delete.  Read in the claim's favour, for
\* messages whose store and state writes succeeded: the step that processes
\* such a message leaves D stored and Pending, and the iteration ends, for
\* each such message it has gone through, with the batch delete.
C18_ValidEventStoredPendingDeleted ==
    [][/\ (IngestStep /\ ValidEvent(reflector.msgs[reflector.i])
              /\ reflector'.deletions # <<>>)
            => ProcessedInto(reflector.msgs[reflector.i], descriptors', deployment_state')
       /\ IterationEnds
            => \A j \in 1..(reflector.i - 1) :
                  (ValidEvent(reflector.msgs[j]) /\ reflector.msgs[j].id \in DeletionIds)
                     => reflector.pc = "deleting"
      ]_vars

\* C19: processing an event message is idempotent.  A message that the
\* reflector processes without failure leaves its descriptor stored under
\* its key and its state Pending with no description, whatever the stores
\* held, and touches no other key; and processing a message whose
\* descriptor and Pending state the stores already hold, as they do after
\* a first processing, leaves both stores exactly as they are, whatever the
\* outcome of the second processing.
C19_ReprocessingIsIdempotent ==
    [][(IngestStep /\ ValidEvent(reflector.msgs[reflector.i]))
          => LET m == reflector.msgs[reflector.i]
                 D == Unwrap(Deserialize(m.kind, Unwrap(m.doc)))
             IN  /\ ProcessedInto(m, descriptors, deployment_state) => UNCHANGED stores
                 /\ reflector'.deletions # <<>>
                       => ProcessedInto(m, descriptors', deployment_state')
                 /\ \A key \in DescriptorKeys \ {<<"descriptor", m.kind, D.id>>} :
                       descriptors'[key] = descriptors[key]
                 /\ \A id \in AllIds \ {D.id} :
                       deployment_state'[id] = deployment_state[id]
      ]_vars

\* C19 witness: in a run without intake, a message is at hand again whose
\* descriptor and Pending state the stores hold from its first processing.
C19_Witness ==
    /\ "http" \notin tasks
    /\ reflector.pc = "processing"
    /\ ValidEvent(reflector.msgs[reflector.i])
    /\ ProcessedInto(reflector.msgs[reflector.i], descriptors, deployment_state)

\* Handler h makes its store_descriptor call in this step.
HandlerStores(h) == handlers[h].pc = "idle" /\ handlers'[h].pc = "stored"

\* The loop of kind k lists the descriptors in this step.
TickLists(k) == loops[k].pc = "sleep" /\ loops'[k].pc \in {"reconciling", "returned"}

\* C20: when the descriptor under (kind, id) is overwritten by the reflector
\* or by intake while a loop is running, the last write wins for the key,
\* and the first tick of the kind's loop that starts after the write
\* reconciles the new descriptor, not the stale one.  A step that changes a
\* key of the Descriptor Store is a write of intake or of the reflector and
\* leaves under the key the document of that write, whatever the key held;
\* a write of the reflector that succeeds leaves its document under the
\* key (the result of a write of intake is dropped and cannot be told);
\* and a tick that lists the descriptors takes up, for every key of its
\* kind, the descriptor the store holds at that moment, once each, and
\* nothing else.
C20_LastWriteWinsAndNextTickSeesIt ==
    [][/\ \A key \in DescriptorKeys :
             descriptors'[key] # descriptors[key]
                => \/ \E h \in 1..MaxHandlers :
                         /\ HandlerStores(h)
                         /\ key = <<"descriptor", Unwrap(handlers'[h].d).kind,
                                    Unwrap(handlers'[h].d).id>>
                         /\ descriptors'[key] = Some(Serialize(Unwrap(handlers'[h].d)))
                   \/ /\ IngestStep
                      /\ ValidEvent(reflector.msgs[reflector.i])
                      /\ LET m == reflector.msgs[reflector.i]
                             D == Unwrap(Deserialize(m.kind, Unwrap(m.doc)))
                         IN  /\ key = <<"descriptor", m.kind, D.id>>
                             /\ descriptors'[key] = Some(Serialize(D))
       /\ (IngestStep /\ ValidEvent(reflector.msgs[reflector.i])
              /\ reflector'.deletions # <<>>)
             => LET m == reflector.msgs[reflector.i]
                    D == Unwrap(Deserialize(m.kind, Unwrap(m.doc)))
                IN  descriptors'[<<"descriptor", m.kind, D.id>>] = Some(Serialize(D))
       /\ \A k \in Kinds :
             (TickLists(k) /\ loops'[k].ret # "err")
                => /\ loops'[k].todo = loops'[k].listed
                   /\ Len(loops'[k].todo) =
                         Cardinality({id \in IdsOf(k) :
                                        IsSome(descriptors[<<"descriptor", k, id>>])})
                   /\ \A id \in IdsOf(k) :
                         IsSome(descriptors[<<"descriptor", k, id>>])
                            => \E j \in 1..Len(loops'[k].todo) :
                                  /\ loops'[k].todo[j].id = id
                                  /\ Serialize(loops'[k].todo[j]) =
                                        Unwrap(descriptors[<<"descriptor", k, id>>])
      ]_vars

\* C20 witness: the flow loop is reconciling what it listed for f1 while
\* the store holds another document for f1, written since the tick.
C20_Witness ==
    /\ loops["flow"].pc = "reconciling"
    /\ \E j \in 1..Len(loops["flow"].listed) :
          /\ loops["flow"].listed[j].id = "f1"
          /\ IsSome(descriptors[<<"descriptor", "flow", "f1">>])
          /\ Serialize(loops["flow"].listed[j]) #
                Unwrap(descriptors[<<"descriptor", "flow", "f1">>])

\* ---------------------------------------------------------------- C21..C30

\* ----------------------------------------- list_descriptors, command by command
\*
\* list_descriptors (descriptor_store.rs:54-68) sends KEYS and then one GET
\* for each key returned, with other clients of the Redis instance at work
\* between its commands.  pc "listing": todo holds the keys still to be
\* fetched, listed the descriptors pushed so far.  Every command is
\* answered; what is followed here is what the answers hold.

\* The descriptors other clients of the store write.
OtherClientsDescriptors ==
    {ValidDatabase, ValidTable("t1"), ValidTable("t2"), CronFlow("f1"), CronFlow("f2")}

\* Another client (an intake handler or a reflector of this or another
\* node) stores d.
OtherClientStores(d) ==
    /\ descriptors' = store_descriptor(descriptors, d)
    /\ UNCHANGED <<tasks, payloads, deployment_state, remote, queue, handlers,
                   loops, reflector>>

\* The value of a key goes away (DEL by another client, expiry, eviction);
\* the service itself never deletes a key.
KeyDisappears(key) ==
    /\ IsSome(descriptors[key])
    /\ descriptors' = [descriptors EXCEPT ![key] = None]
    /\ UNCHANGED <<tasks, payloads, deployment_state, remote, queue, handlers,
                   loops, reflector>>

\* descriptor_store.rs:58: conn.keys("descriptor/<kind>/*")
ListKeys(k) ==
    /\ k \in tasks
    /\ loops[k].pc = "sleep"
    /\ \E keys \in Perms(KeysOfKind(descriptors, k)) :
          loops' = [loops EXCEPT ![k] =
             [pc |-> IF keys = <<>> THEN "returned" ELSE "listing",
              todo |-> keys, listed |-> <<>>, calls |-> <<>>,
              ret |-> IF keys = <<>> THEN "ok" ELSE ""]]
    /\ UNCHANGED <<tasks, payloads, stores, remote, queue, handlers, reflector>>

\* descriptor_store.rs:63-64: let descriptor: String = conn.get(&d).await?
\* and serde_json::from_str(&descriptor)?.  The nil that GET answers for a
\* key without a value does not convert to a String, and whatever it were
\* converted to would not parse as a descriptor: both are an Err that the ?
\* returns.  [ok, value]
list_descriptors_get(redis, kind, key) ==
    IF IsSome(redis[key]) /\ IsSome(Deserialize(kind, Unwrap(redis[key])))
    THEN [ok |-> TRUE, value |-> Deserialize(kind, Unwrap(redis[key]))]
    ELSE [ok |-> FALSE, value |-> None]

\* descriptor_store.rs:61-67: one turn of the for loop, and the return
\* after the last.
ListGet(k) ==
    /\ k \in tasks
    /\ loops[k].pc = "listing"
    /\ LET got == list_descriptors_get(descriptors, k, Head(loops[k].todo))
           rest == Tail(loops[k].todo)
       IN  loops' = [loops EXCEPT ![k] =
              IF got.ok
              THEN [pc |-> IF rest = <<>> THEN "returned" ELSE "listing",
                    todo |-> rest,
                    listed |-> Append(loops[k].listed, Unwrap(got.value)),
                    calls |-> <<>>,
                    ret |-> IF rest = <<>> THEN "ok" ELSE ""]
              ELSE [pc |-> "returned", todo |-> <<>>, listed |-> <<>>,
                    calls |-> <<>>, ret |-> "err"]]
    /\ UNCHANGED <<tasks, payloads, stores, remote, queue, handlers, reflector>>

ListInit ==
    /\ tasks = Kinds
    /\ payloads = {}
    /\ queue = {}
    /\ InitState

ListNext ==
    \/ \E d \in OtherClientsDescriptors : OtherClientStores(d)
    \/ \E key \in DescriptorKeys : KeyDisappears(key)
    \/ \E k \in Kinds : ListKeys(k)
    \/ \E k \in Kinds : ListGet(k)
    \/ \E k \in Kinds : LoopBack(k)

ListSpec == ListInit /\ [][ListNext]_vars

\* C21: list(kind) tolerates a value disappearing between key enumeration
\* and fetch: when the value of an enumerated key is absent at its fetch,
\* list skips the key, keeping the descriptors it has and going on with the
\* keys that remain, and does not fail.
C21_ListSkipsVanishedValue ==
    [][\A k \in Kinds :
          (/\ loops[k].pc = "listing"
           /\ loops'[k] # loops[k]
           /\ ~IsSome(descriptors[Head(loops[k].todo)]))
             => /\ loops'[k].ret # "err"
                /\ loops'[k].listed = loops[k].listed
                /\ loops'[k].todo = Tail(loops[k].todo)]_vars

\* The descriptors put and got in C22: two databases under d1, three tables
\* of which two under t1, four flows of which two under each id.
RoundTripDescriptors ==
    {ValidDatabase, InvalidDatabase, ValidTable("t1"), ValidTable("t2"), InvalidTable,
     CronFlow("f1"), CronFlow("f2"), UpstreamFlow("f1"), UpstreamFlow("f2")}

ReflectorSetStateFailed ==
    /\ IngestStep
    /\ ValidEvent(reflector.msgs[reflector.i])
    /\ descriptors' # descriptors
    /\ LET m == reflector.msgs[reflector.i]
           D == Unwrap(Deserialize(m.kind, Unwrap(m.doc)))
       IN  deployment_state'[D.id] # Some(DeploymentInfo("Pending", None))

\* C23: a failure to persist deployment state is fire-and-forget for every
\* caller.  The intake handler goes from its set_state(Pending) to its
\* reconcile and from its final set_state to its response whether or not
\* the write took effect; the reflector, when its set_state fails, goes on
\* with the remaining messages and the batch delete, the message at hand
\* kept among the deletions; and none of these steps touches the backends.
C23_SetStateFailureIsFireAndForget ==
    [][/\ \A h \in 1..MaxHandlers :
             /\ handlers[h].pc = "stored" /\ handlers'[h] # handlers[h]
                   => handlers'[h].pc = "pending" /\ UNCHANGED remote
             /\ handlers[h].pc = "reconciled" /\ handlers'[h] # handlers[h]
                   => handlers'[h].pc = "done" /\ UNCHANGED remote
       /\ ReflectorSetStateFailed
             => /\ reflector'.pc = IF reflector.i = Len(reflector.msgs)
                                   THEN "deleting" ELSE "processing"
                /\ reflector'.msgs = reflector.msgs
                /\ reflector'.i = reflector.i + 1
                /\ reflector'.deletions =
                      Append(reflector.deletions, reflector.msgs[reflector.i].id)
                /\ UNCHANGED remote
      ]_vars

\* C24: create_bucket treats the backend's "bucket already owned by you" as
\* a success, and returns an error for every other failure of the create
\* call without going on to tag the bucket.  For every database reconcile
\* about to be made with the bucket missing, and every outcome of the calls:
\* when the create call answers "already owned by you" create_bucket does
\* not return that error, and when the create call fails otherwise
\* create_bucket returns an error and has made no tagging call.
C24_AlreadyOwnedIsSuccess ==
    \A d \in DatabasesAtReconcile : \A o \in DatabaseOutcomes :
       LET run == create_bucket("cz-vaporeon-db-s-a", o, buckets)
       IN  "cz-vaporeon-db-s-a" \notin DOMAIN buckets
              => /\ o.create = "owned" => ~run[1].fails
                 /\ o.create = "err"
                       => /\ RunFails(run)
                          /\ \A j \in 1..Len(run) : run[j].call # "put_bucket_tagging"

\* C25: every bucket created by the service carries the identifying
\* tag-set: whenever a database reconcile has succeeded, from intake or from
\* the database loop, the bucket of the database is there with the three
\* tags provisioner, subprovisioner and version, also when the tagging call
\* of the creating reconcile failed and a later reconcile succeeded.  (All
\* buckets of the model are created by the service.)
C25_SucceededReconcileLeavesBucketTagged ==
    [][(\/ \E h \in 1..MaxHandlers :
             /\ HandlerReconciled(h)
             /\ Unwrap(handlers[h].d).kind = "database"
             /\ handlers'[h].res = Some(Ok)
        \/ LoopReconciled("database") /\ LastCall("database").result = Ok)
          => /\ "cz-vaporeon-db-s-a" \in DOMAIN buckets'
             /\ buckets'["cz-vaporeon-db-s-a"] =
                   {<<"provisioner", "basin">>, <<"subprovisioner", "s3">>,
                    <<"basin_version", "0.0.1">>}]_vars

\* The flows about to be reconciled by a handler that has set Pending.
FlowsAtReconcile ==
    {Unwrap(handlers[h].d) : h \in {i \in 1..MaxHandlers :
                                      /\ handlers[i].pc = "pending"
                                      /\ Unwrap(handlers[i].d).kind = "flow"}}

\* C26: when the workflow engine answers a flow submission with a non-2xx
\* status, reconcile returns a ProvisionerError that carries the response
\* body, so that the failure description recorded for the flow contains
\* that body.  For every flow submission about to be made by intake: the
\* error for a non-2xx response is a ProvisionerError whose source is the
\* body of the response, and the descriptions the handler records for two
\* responses with different bodies are not the same.
C26_ProvisionerErrorCarriesBody ==
    \A d \in FlowsAtReconcile :
       \A o \in {x \in FlowOutcomes : x.post = "non2xx"} :
          LET r == FlowReconcile(d, o, jobs).result
          IN  /\ r.class = "ProvisionerError"
              /\ r.source = o.body
              /\ \A p \in {x \in FlowOutcomes : x.post = "non2xx"} :
                    p.body # o.body
                       => HandlerFinalInfo(FlowReconcile(d, p, jobs).result)
                             # HandlerFinalInfo(r)

\* ------------------------------------------------------- flows, by input
\*
\* The runs of intake and the flow loop for one flow descriptor each, over
\* flows of up to MaxSteps steps with none, one or two parents per step.

\* Steps of a flow at most.
MaxSteps == 3

StepName(i) == "s" \o ToString(i)

\* The parents a step at position i may name: none, one earlier step, or
\* two earlier steps in order.
ParentChoices(i) ==
    {<<>>}
    \cup {<<StepName(j)>> : j \in 1..(i - 1)}
    \cup {<<StepName(j), StepName(k)>> : j \in 1..(i - 1), k \in 1..(i - 1)}

StepLists ==
    UNION {{[i \in 1..n |-> FlowStep(StepName(i), ps[i])] :
              ps \in {f \in [1..n -> UNION {ParentChoices(i) : i \in 1..n}] :
                        \A i \in 1..n : f[i] \in ParentChoices(i)}} :
           n \in 0..MaxSteps}

CronSchedules == {"0 0 * * *", "@hourly"}

FlowInputs ==
    {FlowDescriptor("f1", [type |-> "cron", schedule |-> c], st) :
        c \in CronSchedules, st \in StepLists}
    \cup {FlowDescriptor("f1", UpstreamCondition, st) : st \in StepLists}

IntakeAndLoopsNext ==
    \/ Intake
    \/ Loop

FlowSpec ==
    StartIn({Scenario({"http", "flow"}, {d}, {}) : d \in FlowInputs})
       /\ [][IntakeAndLoopsNext]_vars

\* What C27 asks of the job compiled for flow d.
JobMatches(job, d) ==
    /\ job.uuid = d.id
    /\ job.triggers = <<[name |-> "cron", start |-> "2000-01-01T00:00:00Z",
                         cron |-> d.condition.schedule]>>
    /\ Len(job.tasks) = Len(d.steps)
    /\ \A i \in 1..Len(d.steps) :
          /\ job.tasks[i].name = d.steps[i].name
          /\ job.tasks[i].depends =
                IF d.steps[i].parents = <<>>
                THEN <<"trigger/cron">>
                ELSE [j \in 1..Len(d.steps[i].parents) |->
                         "task/" \o d.steps[i].parents[j]]

\* C27: for every flow whose condition is Cron (every step transformation
\* is Sql, the only variant), compilation succeeds and yields exactly one
\* trigger named cron starting at 2000-01-01T00:00:00Z with the flow's
\* schedule, one task per step in step order under the step's name, the
\* flow id as uuid, and depends = <<"trigger/cron">> for a step without
\* parents, else "task/" + p for each parent p in order; and every job
\* submitted to the workflow engine is such a job of the run's flow.
C27_CronFlowCompiles ==
    /\ \A d \in payloads :
          (d.kind = "flow" /\ d.condition.type = "cron")
             => /\ build_waterwheel_job_spec(d) # {}
                /\ \A job \in build_waterwheel_job_spec(d) : JobMatches(job, d)
    /\ \A u \in DOMAIN jobs : \E d \in payloads : JobMatches(jobs[u], d)

\* C27 witness: the job of a flow of three steps has been submitted, its
\* third task depending on the first two.
C27_Witness ==
    /\ "f1" \in DOMAIN jobs
    /\ Len(jobs["f1"].tasks) = 3
    /\ jobs["f1"].tasks[3].depends = <<"task/s1", "task/s2">>
    /\ jobs["f1"].tasks[1].depends = <<"trigger/cron">>

\* C28: validate(d) fails exactly when the job-spec compilation of d fails,
\* which is exactly when d.condition is not the Cron variant; hence a flow
\* with an Upstream condition submitted through intake is rejected with 400
\* and is never stored or submitted to the workflow engine.  In the runs of
\* one flow each: validate accepts the run's flow exactly when compilation
\* returns a job, that is exactly when the condition is cron; and for a
\* flow with an upstream condition the Descriptor Store, the
\* Deployment-State Store and the workflow engine hold nothing under its
\* id, and a handler that has taken the request has answered 400.
C28_UpstreamFlowRejected ==
    \A d \in payloads :
       d.kind = "flow"
          => /\ FlowValidate(d) <=> build_waterwheel_job_spec(d) # {}
             /\ build_waterwheel_job_spec(d) # {} <=> d.condition.type = "cron"
             /\ Validate(d) <=> d.condition.type = "cron"
             /\ d.condition.type = "upstream"
                   => /\ descriptors[<<"descriptor", "flow", d.id>>] = {}
                      /\ deployment_state[d.id] = {}
                      /\ d.id \notin DOMAIN jobs
                      /\ \A h \in 1..MaxHandlers :
                            handlers[h].d = {d}
                               => handlers[h].pc = "done" /\ handlers[h].status = 400

\* C28 witness: a handler has answered 400 to a flow of two steps with an
\* upstream condition.
C28_Witness ==
    \E h \in 1..MaxHandlers :
       /\ handlers[h].pc = "done"
       /\ handlers[h].status = 400
       /\ \E d \in handlers[h].d :
             /\ d.kind = "flow"
             /\ d.condition.type = "upstream"
             /\ Len(d.steps) = 2

\* ---------------------------------------------------- databases, by name
\*
\* The runs of intake for one database of each name of up to MaxNameLen
\* characters and one table in it.

\* Characters of a database name at most.
MaxNameLen == 3

NameChars == {"a", "_"}

DatabaseNames == UNION {[1..n -> NameChars] : n \in 1..MaxNameLen}

\* The requests of intake alone: both controllers' reconcile is called by
\* the handlers.
NamingNext == Intake

NamingSpec ==
    StartIn({Scenario({"http"}, {DatabaseDescriptor("d1", n, "s"), ValidTable("t1")}, {}) :
                n \in DatabaseNames})
       /\ [][NamingNext]_vars

\* The bucket name and the catalog name C29 gives for the database name n.
ClaimedBucketName(n) ==
    "cz-vaporeon-db-" \o Join([i \in 1..Len(n) |-> IF n[i] = "_" THEN "-" ELSE n[i]])

ClaimedCatalogName(n) == "zone_" \o Join(n)

\* C29: remote names are a function of the database name and are the same
\* in both controllers.  For the database D of the run and the table T in
\* it: the bucket name is "cz-vaporeon-db-" + D.name with every '_'
\* replaced by '-', the catalog name is "zone_" + D.name, the table
\* controller's two naming functions return the same as the database
\* controller's, and the table input has the name T.name and the location
\* s3://<bucket name>/<T.name>; and every bucket, catalog database and
\* catalog table that exists is under these names, the table under the
\* catalog name of D with that location.
C29_NamingIsTheSameInBothControllers ==
    \A D \in {d \in payloads : d.kind = "database"} :
       /\ s3_name_for(D) = ClaimedBucketName(D.name)
       /\ glue_name_for(D) = ClaimedCatalogName(D.name)
       /\ table_s3_name_for(D) = s3_name_for(D)
       /\ table_glue_name_for(D) = glue_name_for(D)
       /\ DOMAIN buckets \subseteq {ClaimedBucketName(D.name)}
       /\ DOMAIN glue_dbs \subseteq {ClaimedCatalogName(D.name)}
       /\ \A T \in {t \in payloads : t.kind = "table" /\ t.database = D.id} :
             /\ build_table_input(T, D).name = Join(T.name)
             /\ build_table_input(T, D).storage_descriptor.location =
                   "s3://" \o ClaimedBucketName(D.name) \o "/" \o Join(T.name)
             /\ DOMAIN glue_tables \subseteq {<<ClaimedCatalogName(D.name), Join(T.name)>>}
             /\ \A key \in DOMAIN glue_tables :
                   glue_tables[key].storage_descriptor.location =
                      "s3://" \o ClaimedBucketName(D.name) \o "/" \o Join(T.name)

\* C29 witness: for the database named _a_ the bucket, the catalog database
\* and the table o exist.
C29_Witness ==
    /\ "cz-vaporeon-db--a-" \in DOMAIN buckets
    /\ "zone__a_" \in DOMAIN glue_dbs
    /\ <<"zone__a_", "o">> \in DOMAIN glue_tables
    /\ glue_tables[<<"zone__a_", "o">>].storage_descriptor.location
          = "s3://cz-vaporeon-db--a-/o"

\* --------------------------------------------------- the loop, on the clock
\*
\* BaseController::run with the clock of its task: the ticker of base.rs:20-21
\* and the calls of reconcile_all, each of which takes time.  Times are in
\* milliseconds.  The record of a loop carries, besides the fields above,
\* now (the task's clock), timeout (the ticker's next deadline), fired (when
\* the last tick completed, None before the first), in_progress (the ids whose
\* reconcile has been called and has not returned) and overran (whether the
\* last reconcile_all returned after the ticker's deadline).

\* interval(Duration::from_millis(5000))
Period == 5000

\* The clock is read every TimeStep milliseconds, up to MaxTime.
TimeStep == 2500
MaxTime == 15000

\* A variant of the ticker with MissedTickBehavior::Burst, which keeps the
\* original schedule and fires the missed ticks one after another; the code
\* does not do this.
next_timeout_burst(timeout, now, period) == timeout + period

\* The ticker's next deadline when a tick completes at now, under
\* set_missed_tick_behavior(MissedTickBehavior::Delay): a tick that
\* completes late restarts the schedule from now.
next_timeout(timeout, now, period) ==
    IF now > timeout THEN now + period ELSE timeout + period

\* interval(): the first tick completes immediately.
TimedLoop ==
    [pc |-> "sleep", todo |-> <<>>, listed |-> <<>>, calls |-> <<>>, ret |-> "",
     now |-> 0, timeout |-> 0, fired |-> None, in_progress |-> {}, overran |-> FALSE]

\* Descriptors stored by earlier requests.
TickerDescriptors == {CronFlow("f1"), CronFlow("f2")}

TickerInit ==
    /\ tasks = {"flow"}
    /\ payloads = {}
    /\ queue = {}
    /\ \E stored \in SUBSET TickerDescriptors :
          descriptors = [key \in DescriptorKeys |->
              IF \E d \in stored : key = DescriptorKey(d.kind, d.id)
              THEN Some(Serialize(CHOOSE d \in stored : key = DescriptorKey(d.kind, d.id)))
              ELSE None]
    /\ deployment_state = [id \in AllIds |-> None]
    /\ buckets = Empty
    /\ glue_dbs = Empty
    /\ glue_tables = Empty
    /\ jobs = Empty
    /\ handlers = [h \in 1..MaxHandlers |-> IdleHandler]
    /\ loops = [k \in Kinds |-> TimedLoop]
    /\ reflector = SleepingReflector

\* Time passes for the task of loop k, whatever it is waiting for.
TimePasses(k) ==
    /\ k \in tasks
    /\ loops[k].now + TimeStep <= MaxTime
    /\ loops' = [loops EXCEPT ![k].now = @ + TimeStep]
    /\ UNCHANGED <<tasks, payloads, stores, remote, queue, handlers, reflector>>

\* base.rs:25-36: ticker.tick().await completes, no earlier than the
\* deadline, and reconcile_all lists the descriptors.
TickerTickWith(k, ok) ==
    /\ k \in tasks
    /\ loops[k].pc = "sleep"
    /\ loops[k].now >= loops[k].timeout
    /\ ok \in BOOLEAN
    /\ \E ds \in (IF ok THEN ListOf(k) ELSE {<<>>}) :
          loops' = [loops EXCEPT ![k] =
             [loops[k] EXCEPT
                !.pc = IF ds = <<>> THEN "returned" ELSE "reconciling",
                !.todo = ds, !.listed = ds, !.calls = <<>>,
                !.ret = IF ~ok THEN "err" ELSE IF ds = <<>> THEN "ok" ELSE "",
                !.fired = Some(loops[k].now),
                !.timeout = next_timeout(loops[k].timeout, loops[k].now, Period)]]
    /\ UNCHANGED <<tasks, payloads, stores, remote, queue, handlers, reflector>>

TickerTick(k) == \E ok \in BOOLEAN : TickerTickWith(k, ok)

\* base.rs:41: self.reconcile(&descriptor) is called for the next descriptor
\* of the for loop; the loop is at this call until the .await returns.
ReconcileCalled(k) ==
    /\ k \in tasks
    /\ loops[k].pc = "reconciling"
    /\ loops[k].in_progress = {}
    /\ loops' = [loops EXCEPT ![k].in_progress = {Head(loops[k].todo).id}]
    /\ UNCHANGED <<tasks, payloads, stores, remote, queue, handlers, reflector>>

\* base.rs:41-53: the call returns with the outcomes o and the for loop
\* goes to the next descriptor.
ReconcileReturnsWith(k, o) ==
    /\ k \in tasks
    /\ loops[k].pc = "reconciling"
    /\ loops[k].in_progress # {}
    /\ o \in OutcomesOf(k)
    /\ LET d == Head(loops[k].todo)
       IN  \E cut \in CutsOf(d, o) :
           LET out == Reconcile(d, o, cut)
               calls == Append(loops[k].calls, [id |-> d.id, result |-> out.result])
               stop == OnReconcileResult(out.result) = "return"
               rest == IF stop THEN <<>> ELSE Tail(loops[k].todo)
           IN  /\ SetRemote(out)
               /\ deployment_state' = LoopStateUpdate(deployment_state, d, out.result)
               /\ loops' = [loops EXCEPT ![k] =
                     [loops[k] EXCEPT
                        !.pc = IF rest = <<>> THEN "returned" ELSE "reconciling",
                        !.todo = rest, !.calls = calls,
                        !.ret = IF stop THEN "err" ELSE IF rest = <<>> THEN "ok" ELSE "",
                        !.in_progress = {}]]
    /\ UNCHANGED <<tasks, payloads, descriptors, queue, handlers, reflector>>

ReconcileReturns(k) == \E o \in OutcomesOf(k) : ReconcileReturnsWith(k, o)

\* base.rs:28-32: reconcile_all has returned and run goes back to
\* ticker.tick().
TickerLoopBack(k) ==
    /\ k \in tasks
    /\ loops[k].pc = "returned"
    /\ loops' = [loops EXCEPT ![k] =
          [loops[k] EXCEPT !.pc = AfterReconcileAll(loops[k].ret),
                           !.todo = <<>>, !.listed = <<>>, !.calls = <<>>, !.ret = "",
                           !.overran = loops[k].now > loops[k].timeout]]
    /\ UNCHANGED <<tasks, payloads, stores, remote, queue, handlers, reflector>>

TickerNext ==
    \/ \E k \in Kinds : TimePasses(k)
    \/ \E k \in Kinds : TickerTick(k)
    \/ \E k \in Kinds : ReconcileCalled(k)
    \/ \E k \in Kinds : ReconcileReturns(k)
    \/ \E k \in Kinds : TickerLoopBack(k)

TickerSpec == TickerInit /\ [][TickerNext]_vars

\* A tick of loop k completes in this step.
TickCompletes(k) == loops[k].pc = "sleep" /\ loops'[k].pc # "sleep"

\* C30: within one controller loop at most one reconcile is in progress at
\* any time, and only while reconcile_all runs; a tick completes only when
\* the previous reconcile_all has returned and none of its reconciles is
\* still in progress, and not before the ticker's deadline; a tick that
\* completes after its deadline moves the next deadline to one interval
\* after its completion, so that no second tick is already due when a tick
\* completes.
C30_OneReconcileAtATimeAndTicksDoNotAccumulate ==
    /\ [](\A k \in tasks \cap Kinds :
             /\ Cardinality(loops[k].in_progress) <= 1
             /\ loops[k].in_progress # {} => loops[k].pc = "reconciling")
    /\ [][\A k \in tasks \cap Kinds :
             TickCompletes(k) =>
                /\ loops[k].in_progress = {}
                /\ loops[k].todo = <<>>
                /\ loops[k].now >= loops[k].timeout
                /\ loops'[k].timeout > loops'[k].now
                /\ loops'[k].timeout =
                      (IF loops[k].now > loops[k].timeout
                       THEN loops[k].now ELSE loops[k].timeout) + 5000]_vars

\* A reconcile_all overran the interval, the next tick has completed at
\* once and the first reconcile of that tick is in progress.
C30_Witness ==
    /\ "flow" \in tasks
    /\ DOMAIN loops["flow"] = DOMAIN TimedLoop
    /\ loops["flow"].overran
    /\ \E t \in loops["flow"].fired :
          t > 5000 /\ loops["flow"].timeout = t + 5000
    /\ loops["flow"].in_progress # {}

\* ------------------------------------------------------- the task of a step

\* C31: for every Sql step the compiled task is docker {image: "bash",
\* args: ["-c", "echo \"<sql>\""]}, the text between the quotes being the
\* shell-escaped sql; for the sql text SELECT 1 the second argument is
\* exactly echo "SELECT 1".  Every step of the flows submitted here has the
\* sql text SELECT 1: every task of every job submitted to the workflow
\* engine has exactly these arguments.
C31_SqlTaskEchoesTheSql ==
    \A u \in DOMAIN jobs :
       \A i \in 1..Len(jobs[u].tasks) :
          jobs[u].tasks[i].docker =
             [image |-> "bash", args |-> <<"-c", "echo \"SELECT 1\"">>]

\* ------------------------------------------- the database reconcile, by call
\*
\* DatabaseController::reconcile with every remote call a step of its own,
\* so that the calls of the futures of try_join! and of two reconciles of
\* the same descriptor interleave.  A reconcile in progress is a record
\* join: s3 and glue are where reconcile_s3 and reconcile_glue stand (the
\* call in flight, or "ok", "err", or "dropped" for a future dropped by the
\* join), log is the sequence of the calls started and the failures
\* observed, result is the value of reconcile once it has returned.
\* reconcile_iam is Ok at the first poll and makes no call.

S3Calls == {"head_bucket", "create_bucket", "put_bucket_tagging"}
GlueCalls == {"get_database", "create_database", "tag_resource", "update_database"}

NoJoin == [s3 |-> "", glue |-> "", log |-> <<>>, result |-> None]

JoinOf(r) == IF "join" \in DOMAIN r THEN r.join ELSE NoJoin

WithJoin(r, j) ==
    [f \in DOMAIN r \cup {"join"} |-> IF f = "join" THEN j ELSE r[f]]

Started(fut, call) == [ev |-> "call", fut |-> fut, what |-> call]
Observed(fut, failure) == [ev |-> "failed", fut |-> fut, what |-> failure]

\* database.rs:48-52, the first poll of try_join!: reconcile_s3 sends
\* head_bucket (database.rs:82-86, s3.rs:25-31), reconcile_glue sends
\* get_database (database.rs:112, glue.rs:26-32).
try_join_first_poll ==
    [s3 |-> "head_bucket", glue |-> "get_database",
     log |-> <<Started("s3", "head_bucket"), Started("glue", "get_database")>>,
     result |-> None]

\* What the object store does with a call and answers: [answer, bkts].
\* fail is a failure of the call for another reason than the state of the
\* bucket.  CreateBucket on a bucket the caller owns answers
\* BucketAlreadyOwnedByYou, or 200 in the region where it is accepted.
S3Serves(call, name, fail, bkts) ==
    CASE call = "head_bucket" ->
            {[answer |-> IF fail THEN "err"
                         ELSE IF name \in DOMAIN bkts THEN "found" ELSE "not_found",
              buckets |-> bkts]}
      [] call = "create_bucket" ->
            IF fail THEN {[answer |-> "err", buckets |-> bkts]}
            ELSE IF name \in DOMAIN bkts
            THEN {[answer |-> "owned", buckets |-> bkts],
                  [answer |-> "ok", buckets |-> bkts]}
            ELSE {[answer |-> "ok", buckets |-> Put(bkts, name, {})]}
      [] call = "put_bucket_tagging" ->
            IF fail \/ name \notin DOMAIN bkts
            THEN {[answer |-> "err", buckets |-> bkts]}
            ELSE {[answer |-> "ok", buckets |-> Put(bkts, name, BucketTags)]}

\* Where reconcile_s3 goes on the answer to its call (database.rs:77-105,
\* s3.rs:25-76): the next call, or "ok" or "err" for its return value.
\* update_bucket makes no call.
reconcile_s3_after(call, answer) ==
    CASE call = "head_bucket" ->
            (CASE answer = "err" -> "err"
               [] answer = "found" -> "ok"
               [] answer = "not_found" -> "create_bucket")
      [] call = "create_bucket" ->
            IF answer = "owned" THEN "err" ELSE "put_bucket_tagging"
      [] call = "put_bucket_tagging" ->
            IF answer = "ok" THEN "ok" ELSE "err"

\* What the catalog does with a call and answers: [answer, dbs].
GlueServes(call, d, fail, dbs) ==
    LET name == glue_name_for(d)
        input == build_db_input(name, d.summary, "s3://" \o s3_name_for(d))
    IN  CASE call = "get_database" ->
            {[answer |-> IF fail THEN "err"
                         ELSE IF name \in DOMAIN dbs THEN "found" ELSE "not_found",
              dbs |-> dbs]}
      [] call = "create_database" ->
            IF fail THEN {[answer |-> "err", dbs |-> dbs]}
            ELSE IF name \in DOMAIN dbs
            THEN {[answer |-> "already_exists", dbs |-> dbs]}
            ELSE {[answer |-> "ok",
                   dbs |-> Put(dbs, name, [input |-> input, tags |-> {}])]}
      [] call = "tag_resource" ->
            IF fail \/ name \notin DOMAIN dbs
            THEN {[answer |-> "err", dbs |-> dbs]}
            ELSE {[answer |-> "ok",
                   dbs |-> Put(dbs, name, [dbs[name] EXCEPT !.tags = GlueDbTags])]}
      [] call = "update_database" ->
            IF fail \/ name \notin DOMAIN dbs
            THEN {[answer |-> "err", dbs |-> dbs]}
            ELSE {[answer |-> "ok",
                   dbs |-> Put(dbs, name, [dbs[name] EXCEPT !.input = input])]}

\* Where reconcile_glue goes on the answer to its call (database.rs:107-148,
\* glue.rs:25-93).
reconcile_glue_after(call, answer) ==
    CASE call = "get_database" ->
            (CASE answer = "err" -> "err"
               [] answer = "found" -> "update_database"
               [] answer = "not_found" -> "create_database")
      [] call = "create_database" ->
            IF answer = "ok" THEN "tag_resource" ELSE "err"
      [] call = "tag_resource" ->
            IF answer = "ok" THEN "ok" ELSE "err"
      [] call = "update_database" ->
            IF answer = "ok" THEN "ok" ELSE "err"

\* A variant of reconcile that awaits the three futures with join! and
\* looks at their results afterwards; the code does not do this.
join_awaits_peers == FALSE

\* database.rs:48: try_join! returns at the first Err and drops the futures
\* that have not completed.
try_join_drops_peers == TRUE

\* The call in flight of a dropped future: the request may have reached the
\* backend, which then serves it, or not.
DroppedInFlight(j, d, peer, bkts, dbs) ==
    {[buckets |-> bkts, dbs |-> dbs]} \cup
    (IF peer = "s3" /\ j.s3 \in S3Calls
     THEN {[buckets |-> a.buckets, dbs |-> dbs] :
              a \in S3Serves(j.s3, s3_name_for(d), FALSE, bkts)}
     ELSE IF peer = "glue" /\ j.glue \in GlueCalls
     THEN {[buckets |-> bkts, dbs |-> a.dbs] :
              a \in GlueServes(j.glue, d, FALSE, dbs)}
     ELSE {})

\* The value of try_join! once future fut has gone to j[fut]
\* (database.rs:48-54): [join, bkts, dbs].
try_join_poll(j, d, fut, bkts, dbs) ==
    LET peer == IF fut = "s3" THEN "glue" ELSE "s3"
        finished == {"ok", "err", "dropped"}
    IN  IF j[fut] = "err" /\ try_join_drops_peers /\ j[peer] \notin finished
        THEN {[join |-> [j EXCEPT ![peer] = "dropped",
                                  !.result = Some(DatabaseJoinError)],
               buckets |-> a.buckets, dbs |-> a.dbs] :
                 a \in DroppedInFlight(j, d, peer, bkts, dbs)}
        ELSE IF j[fut] \in finished /\ j[peer] \in finished
        THEN {[join |-> [j EXCEPT !.result =
                            IF j.s3 = "ok" /\ j.glue = "ok"
                            THEN Some(Ok) ELSE Some(DatabaseJoinError)],
               buckets |-> bkts, dbs |-> dbs]}
        ELSE {[join |-> j, buckets |-> bkts, dbs |-> dbs]}

\* The call in flight of future fut of the reconcile j of d is answered and
\* the future is polled: [join, bkts, dbs].
CallReturns(j, d, fut, fail, bkts, dbs) ==
    LET served == IF fut = "s3"
                  THEN {[answer |-> a.answer, buckets |-> a.buckets, dbs |-> dbs] :
                           a \in S3Serves(j.s3, s3_name_for(d), fail, bkts)}
                  ELSE {[answer |-> a.answer, buckets |-> bkts, dbs |-> a.dbs] :
                           a \in GlueServes(j.glue, d, fail, dbs)}
    IN  UNION {LET next == IF fut = "s3" THEN reconcile_s3_after(j.s3, a.answer)
                           ELSE reconcile_glue_after(j.glue, a.answer)
                   log == IF next \in S3Calls \cup GlueCalls
                          THEN Append(j.log, Started(fut, next))
                          ELSE IF next = "err"
                          THEN Append(j.log, Observed(fut, a.answer))
                          ELSE j.log
               IN  try_join_poll([j EXCEPT ![fut] = next, !.log = log],
                                 d, fut, a.buckets, a.dbs) :
               a \in served}

\* The futures of join j that have a call in flight.
InFlight(j) ==
    {fut \in {"s3", "glue"} : j[fut] \in S3Calls \cup GlueCalls}

\* main.rs:110: the handler calls ctl.reconcile(&payload) of the database
\* controller.
HandleJoinStarts(h) ==
    /\ "http" \in tasks
    /\ handlers[h].pc = "pending"
    /\ Unwrap(handlers[h].d).kind = "database"
    /\ handlers' = [handlers EXCEPT ![h] =
          WithJoin([handlers[h] EXCEPT !.pc = "joining"], try_join_first_poll)]
    /\ UNCHANGED <<tasks, payloads, stores, remote, queue, loops, reflector>>

\* A call of the handler's reconcile is answered; when the join has a
\* value, reconcile returns it to the handler.
HandleCallReturns(h) ==
    /\ "http" \in tasks
    /\ handlers[h].pc = "joining"
    /\ \E fut \in InFlight(JoinOf(handlers[h])), fail \in BOOLEAN :
       \E out \in CallReturns(JoinOf(handlers[h]), Unwrap(handlers[h].d), fut, fail,
                              buckets, glue_dbs) :
          /\ buckets' = out.buckets
          /\ glue_dbs' = out.dbs
          /\ handlers' = [handlers EXCEPT ![h] =
                WithJoin([handlers[h] EXCEPT
                            !.pc = IF IsSome(out.join.result)
                                   THEN "reconciled" ELSE "joining",
                            !.res = out.join.result],
                         out.join)]
    /\ UNCHANGED <<tasks, payloads, stores, glue_tables, jobs, queue, loops, reflector>>

\* base.rs:41: reconcile_all calls self.reconcile for the next descriptor.
LoopJoinStarts(k) ==
    /\ k \in tasks
    /\ k = "database"
    /\ loops[k].pc = "reconciling"
    /\ InFlight(JoinOf(loops[k])) = {}
    /\ loops' = [loops EXCEPT ![k] = WithJoin(loops[k], try_join_first_poll)]
    /\ UNCHANGED <<tasks, payloads, stores, remote, queue, handlers, reflector>>

\* A call of the loop's reconcile is answered; when the join has a value,
\* reconcile returns it and the for loop goes on (base.rs:41-54).
LoopCallReturns(k) ==
    /\ k \in tasks
    /\ loops[k].pc = "reconciling"
    /\ \E fut \in InFlight(JoinOf(loops[k])), fail \in BOOLEAN :
       \E out \in CallReturns(JoinOf(loops[k]), Head(loops[k].todo), fut, fail,
                              buckets, glue_dbs) :
          LET returned == IsSome(out.join.result)
              result == Unwrap(out.join.result)
              stop == returned /\ OnReconcileResult(result) = "return"
              rest == IF stop THEN <<>>
                      ELSE IF returned THEN Tail(loops[k].todo) ELSE loops[k].todo
          IN  /\ buckets' = out.buckets
              /\ glue_dbs' = out.dbs
              /\ loops' = [loops EXCEPT ![k] =
                    WithJoin([loops[k] EXCEPT
                                !.pc = IF rest = <<>> THEN "returned" ELSE "reconciling",
                                !.todo = rest,
                                !.calls = IF returned
                                          THEN Append(loops[k].calls,
                                                 [id |-> Head(loops[k].todo).id,
                                                  result |-> result])
                                          ELSE loops[k].calls,
                                !.ret = IF stop THEN "err"
                                        ELSE IF rest = <<>> THEN "ok" ELSE ""],
                             out.join)]
    /\ UNCHANGED <<tasks, payloads, stores, glue_tables, jobs, queue, handlers, reflector>>

JoinNext ==
    \/ \E h \in 1..MaxHandlers, d \in payloads : HandleValidateAndStore(h, d)
    \/ \E h \in 1..MaxHandlers : HandleSetPending(h)
    \/ \E h \in 1..MaxHandlers : HandleJoinStarts(h)
    \/ \E h \in 1..MaxHandlers : HandleCallReturns(h)
    \/ \E h \in 1..MaxHandlers : HandleRespond(h)
    \/ \E h \in 1..MaxHandlers : HandleDone(h)
    \/ \E k \in Kinds : Tick(k)
    \/ \E k \in Kinds : LoopJoinStarts(k)
    \/ \E k \in Kinds : LoopCallReturns(k)
    \/ \E k \in Kinds : LoopBack(k)

\* The intake handlers and the database loop, one database submitted.
JoinSpec ==
    StartIn({Scenario({"http", "database"}, {ValidDatabase}, {})})
       /\ [][JoinNext]_vars

\* The database reconciles in progress or just returned.
Joins ==
    {JoinOf(handlers[h]) : h \in 1..MaxHandlers} \cup {JoinOf(loops[k]) : k \in Kinds}

\* C32: in a database reconcile the first failing sub-reconciliation
\* cancels its peers: once a failure of the bucket or catalog
\* sub-reconciliation has been observed, no sub-reconciliation of that
\* reconcile starts a further remote call, and a reconcile that has
\* returned has no call of its own still awaited.
C32_FirstFailureCancelsPeers ==
    \A j \in Joins :
       /\ \A a \in 1..Len(j.log), b \in 1..Len(j.log) :
             (a < b /\ j.log[a].ev = "failed") => j.log[b].ev # "call"
       /\ IsSome(j.result) => InFlight(j) = {}

\* The bucket lookup of a handler's reconcile has failed while the catalog
\* lookup was in flight: the catalog sub-reconciliation is dropped with
\* nothing but its lookup started, and the reconcile has returned the error.
C32_Witness ==
    \E h \in 1..MaxHandlers :
       LET j == JoinOf(handlers[h])
       IN  /\ j.s3 = "err"
           /\ j.glue = "dropped"
           /\ j.log = <<Started("s3", "head_bucket"), Started("glue", "get_database"),
                        Observed("s3", "err")>>
           /\ IsSome(j.result) /\ IsErr(Unwrap(j.result))
           /\ handlers[h].pc = "reconciled"

\* C34: reconcile is safe to run concurrently with itself: when two
\* reconciles of the same database descriptor overlap on a backend where
\* bucket and catalog database are missing, each resource is created once
\* and both reconciles return success.  Every reconcile that has returned,
\* and none of whose calls failed for a reason other than the state of the
\* resource, has returned Ok.
C34_OverlappingReconcilesSucceed ==
    \A j \in Joins :
       (/\ IsSome(j.result)
        /\ \A a \in 1..Len(j.log) : j.log[a].ev = "failed" => j.log[a].what # "err")
          => Unwrap(j.result) = Ok

\* ------------------------------------------------- tables and their database

\* The tables whose reconcile is the next step of the table loop or of an
\* intake handler.
TablesAtReconcile ==
    {Head(loops[k].todo) : k \in {x \in tasks \cap {"table"} :
                                     loops[x].pc = "reconciling"}}
    \cup {Unwrap(handlers[h].d) : h \in {x \in 1..MaxHandlers :
                                           /\ handlers[x].pc = "pending"
                                           /\ Unwrap(handlers[x].d).kind = "table"}}

\* C33: the table controller issues a catalog create_table or update_table
\* for table T only when the catalog database zone_<D.name> of its database
\* D exists remotely; the presence of D in the descriptor store alone never
\* leads to a table call against a catalog database that has not been
\* created.  For every table about to be reconciled whose database is in
\* the store, and for every outcome of the calls: when the reconcile's run
\* has a create_table or update_table call, the catalog database exists.
C33_TableCallsOnlyAfterDatabaseCreated ==
    \A t \in TablesAtReconcile :
       LET depended_db == get_descriptor(descriptors, t.database, "database")
       IN  (depended_db.ok /\ IsSome(depended_db.value)) =>
              \A o \in {x \in TableOutcomes : x.lookup = "actual"} :
                 LET run == reconcile_glue_table(t, Unwrap(depended_db.value), o,
                                                 glue_tables)
                 IN  (\E n \in 1..Len(run) :
                         run[n].call \in {"create_table", "update_table"})
                        => ("zone_" \o Join(Unwrap(depended_db.value).name))
                              \in DOMAIN glue_dbs

\* ------------------------------------------------------- what is in the stores

\* C35: every descriptor in the descriptor store satisfies the validate of
\* its kind's controller, whichever path stored it, and hence a controller
\* loop never reconciles a descriptor that validation would have rejected.
\* Every stored document that parses as a descriptor of its kind is
\* accepted by Validate, and so is every descriptor a loop has listed.
C35_StoredDescriptorsAreValid ==
    /\ \A key \in DescriptorKeys :
          IsSome(descriptors[key]) =>
             LET d == Deserialize(key[2], Unwrap(descriptors[key]))
             IN  IsSome(d) => Validate(Unwrap(d))
    /\ \A k \in tasks \cap Kinds :
          \A n \in 1..Len(loops[k].listed) : Validate(loops[k].listed[n])

\* C36: in every reachable state, every id that has an entry in the
\* deployment-state store also has a descriptor with that id in the
\* descriptor store.
C36_StateOnlyForStoredDescriptors ==
    \A id \in AllIds :
       IsSome(deployment_state[id]) =>
          \E key \in DescriptorKeys : key[3] = id /\ IsSome(descriptors[key])

\* C37: every deployment info written to the deployment-state store has
\* state Pending, Succeeded or Failed (Deploying and Unknown are never
\* written), and its description is present exactly when the state is
\* Failed, in which case it is the non-empty text of the reconcile error.
C37_StoredInfoIsWellFormed ==
    \A id \in AllIds :
       \A info \in deployment_state[id] :
          /\ info.state \in {"Pending", "Succeeded", "Failed"}
          /\ info.state = "Failed" <=> info.description # {}
          /\ \A text \in info.description :
                /\ text # ""
                /\ text \in {"error from provisioner", "error from controller",
                             "redis error"}
                            \cup {"missing dependency '" \o dep \o "'" : dep \in AllIds}

\* A handler whose reconcile failed with a provisioner error has answered
\* 500, and Failed with the text of that error is stored for its descriptor.
C37_Witness ==
    /\ \E id \in AllIds :
          deployment_state[id] = {[state |-> "Failed",
                                   description |-> {"error from provisioner"}]}
             /\ \E h \in 1..MaxHandlers :
                   handlers[h].pc = "done" /\ handlers[h].status = 500
                      /\ Unwrap(handlers[h].d).id = id

=============================================================================
